---- MODULE Spec2Model ----
(***************************************************************************)
(* Step orchestration, backup rotation and restore of keycloak-management. *)
(*                                                                         *)
(* Several state machines share the variables below:                      *)
(*   SpecOrch      StepOrchestrator.execute driving BaseStep.execute       *)
(*                 (src/src/core/orchestrator.py, src/src/core/base.py)    *)
(*   SpecDeploy    DeploymentOrchestrator.deploy over DeploymentStep       *)
(*                 objects (src/src/deployment/orchestrator.py)            *)
(*   SpecCert      runs of CertificateManager (src/src/security/ssl.py)    *)
(*                 and CertificateStep (src/src/steps/certificates)        *)
(*   SpecRotation  successive backup creations of the certificate, Wazuh   *)
(*                 and Prometheus managers                                 *)
(*   SpecRestore   backup creations followed by restores of the latest     *)
(*   SpecValidate  _validate_certificate on one certificate and key        *)
(*   SpecEnv       EnvironmentChecker (src/src/steps/environment.py) under *)
(*                 BaseStep.execute of src/src/steps/base.py               *)
(*   SpecPoll      the readiness polls of the Keycloak deployment steps    *)
(*   SpecDocker    DockerSetupStep._deploy and _cleanup                    *)
(*                 (src/src/steps/docker/setup.py)                         *)
(*   SpecKc        KeycloakConfigurationManager.configure_all over the     *)
(*                 realm, clients and authentication steps                 *)
(*                 (src/src/steps/keycloak/config)                         *)
(*   SpecCfgStep   KeycloakConfigStep.execute and rollback                 *)
(*                 (src/src/keycloak/config/base.py)                       *)
(*   SpecFirewall  FirewallStep._deploy and _cleanup                       *)
(*   SpecKd        KeycloakDeploymentStep.check_completed, execute and     *)
(*                 cleanup (src/src/keycloak/deploy.py)                    *)
(*   SpecCmd       the deploy command (src/kcmanage/commands/deploy.py)    *)
(*                 driving StepOrchestrator.execute                        *)
(*                 (src/src/steps/firewall/firewallstep.py)                *)
(***************************************************************************)
EXTENDS Integers, Sequences, FiniteSets, TLC

VARIABLES
    steps,        \* orchestrator.steps: the ids of the steps, in list order
    can_cleanup,  \* can_cleanup of each step of the list (parallel to steps)
    can_skip,     \* can_skip of each step of the list (DeploymentStep only)
    pc,           \* position of the orchestrator's execute()/deploy()
    idx,          \* index into steps of the loop's current step (1-based)
    phase,        \* position inside the current step's execute()
    log,          \* history: the calls made so far, <<step id, call, outcome>>
    result,       \* what execute()/deploy() returned: "none" while running
    impl,         \* which certificate implementation a run of SpecCert uses
    max_backups,  \* configuration: ssl.max_backups
    liveCert,     \* content of <cert_dir>/<main_domain>/fullchain.pem
    liveKey,      \* content of <cert_dir>/<main_domain>/privkey.pem: a key id, 0 = no file
    backups,      \* backup_dir: timestamp of the record -> [cert, key]
    clock,        \* the wall clock, in the seconds strftime('%Y%m%d_%H%M%S') shows
    nextKey,      \* id of the key pair the next issuance generates
    backup_path,  \* execute()'s local backup_path: a timestamp, 0 = None
    runs,         \* number of runs started
    obs,          \* history of the current execute(): what it saw and did
    environ,      \* os.environ: variable name -> value
    env_file,     \* the .env file of the working directory: [exists, vars]
    env_checker,  \* steps.base.BaseStep.env_checker is set (not None)
    required_vars,\* EnvironmentChecker.required_vars
    env_vars,     \* EnvironmentChecker.env_vars: variable name -> value
    env_calls,    \* number of calls made on the step and its checker
    env_obs,      \* history of the last call: what it saw and reported
    poll_step,    \* the step whose deployment is polling for readiness
    poll_bounds,  \* the bound (probes or elapsed time) of each poll of the step
    poll_no,      \* index of the step's current poll
    probes,       \* probes made by the current poll
    elapsed,      \* time.time() - start_time of the current poll, in sleeps
    poll_obs,     \* history: polls satisfied so far, and whether one ran out
    networks,     \* the Docker networks that exist
    volumes,      \* the Docker volumes that exist
    net_in_use,   \* containers are attached to the network
    docker_valid, \* validate_variables(env_vars) of the step's environment
    docker_runs,  \* number of _deploy calls made
    docker_obs,   \* history of the last _deploy: what it found, tried and made
    keycloak,     \* the Keycloak server: its realms, clients, flows, actions
    kc_config,    \* the 'clients' list of the clients configuration
    kc_step,      \* the configuration step configure_all is at
    kc_i,         \* index of ClientConfigStep.execute's loop over the clients
    kc_changes,   \* RealmConfigStep.changes: the actions recorded, in order
    kc_calls,     \* history: the admin calls made, [step, i, verb, path, key]
    firewall,     \* the host: rules.json, the iptables rules, UFW being active
    fw_backups,   \* FIREWALL_BACKUP_DIR: timestamp -> rules of rules_<ts>.json
    fw_max,       \* FIREWALL_MAX_BACKUPS
    fw_clock,     \* the wall clock, in the seconds strftime('%Y%m%d%H%M%S') shows
    fw_runs,      \* number of _deploy calls made
    fw_obs,       \* history of the last _deploy: what it found and snapshotted
    containers,   \* the Docker containers: name -> "absent" or its health
    kd_runs,      \* number of KeycloakDeploymentStep.execute calls made
    kd_obs,       \* history of the last execute: what it found, made, returned
    cmd_load,     \* how the import of each step class ends: step id -> outcome
    cmd_orch_ok,  \* StepOrchestrator can be imported and constructed
    cmd_step,     \* the --step option: a step id, 0 when it is not given
    cmd_ret       \* what the deploy command returned, "none" while running

orchVars == <<steps, can_cleanup, can_skip, pc, idx, phase, log, result>>

certVars == <<impl, max_backups, liveCert, liveKey, backups, clock, nextKey,
              backup_path, runs, obs>>

envVars == <<environ, env_file, env_checker, required_vars, env_vars,
             env_calls, env_obs>>

pollVars == <<poll_step, poll_bounds, poll_no, probes, elapsed, poll_obs>>

\* the variables the orchestrator and certificate specifications never use
dockerVars == <<networks, volumes, net_in_use, docker_valid, docker_runs,
                docker_obs>>

kcVars == <<keycloak, kc_config, kc_step, kc_i, kc_changes, kc_calls>>

fwVars == <<firewall, fw_backups, fw_max, fw_clock, fw_runs, fw_obs>>

kdVars == <<containers, kd_runs, kd_obs>>

cmdVars == <<cmd_load, cmd_orch_ok, cmd_step, cmd_ret>>

auxVars == <<envVars, pollVars, dockerVars, kcVars, fwVars, kdVars, cmdVars>>

vars == <<orchVars, certVars, auxVars>>

\* ------------------------------------------------------------------ bounds
NumSteps == 3

\* ----------------------------------------------------------------- helpers
Range(s) == {s[i] : i \in 1..Len(s)}

Outcomes == {"true", "false", "raise"}

\* the calls of step s recorded in the log, in order
CallsOf(s) == SelectSeq(log, LAMBDA e : e[1] = s)

Bool(b) == IF b THEN "true" ELSE "false"

Called(s, c) == \E i \in 1..Len(log) : log[i][1] = s /\ log[i][2] = c

CountCalls(s, c) ==
    Cardinality({i \in 1..Len(log) : log[i][1] = s /\ log[i][2] = c})

\* ------------------------------------------------- certificates and keys
\* A PEM file as the validation code reads it: whether the file exists and
\* parses, the time left until notAfter (in half days, so that the whole-day
\* count timedelta.days is a real truncation), the subjectAltName entries, the
\* id of the key pair it was issued for, and whether its chain verifies.
NoCert == [exists |-> FALSE, parse |-> FALSE, rem |-> 0, san |-> {},
           pub |-> 0, chain |-> FALSE]

Domains == {"a.example"}

MinDaysValid == 30

MaxBackupsDefault == 5

\* what certbot (or the administrator) can have put on disk for key pair k
GoodCert(k) == [exists |-> TRUE, parse |-> TRUE, rem |-> 2 * MinDaysValid + 120,
                san |-> Domains, pub |-> k, chain |-> TRUE]

ChainBadCert(k) == [GoodCert(k) EXCEPT !.chain = FALSE]

ExpiringCert(k) == [GoodCert(k) EXCEPT !.rem = 2 * MinDaysValid + 1]

WrongDomainCert(k) == [GoodCert(k) EXCEPT !.san = {"other.example"}]

IssuedKinds == {"good", "chainbad", "wrongdomain"}

Issued(kind, k) ==
    CASE kind = "good"     -> GoodCert(k)
      [] kind = "chainbad" -> ChainBadCert(k)
      [] OTHER             -> WrongDomainCert(k)

NoRestore == [called |-> FALSE, ret |-> FALSE, src |-> NoCert, srcKey |-> 0,
              preCert |-> NoCert, preKey |-> 0, postCert |-> NoCert, postKey |-> 0,
              writes |-> 0, empty |-> FALSE]

NoObs == [entryCert |-> NoCert, entryKey |-> 0, created |-> 0, mutated |-> FALSE,
          issuance |-> "none", validBackup |-> FALSE, evicted |-> {},
          allOk |-> TRUE, fault |-> FALSE, restore |-> NoRestore]

\* the certificate variables, unused by the two orchestrator specifications
CertUnused ==
    /\ impl = "none"
    /\ max_backups = MaxBackupsDefault
    /\ liveCert = NoCert
    /\ liveKey = 0
    /\ backups = <<>>
    /\ clock = 0
    /\ nextKey = 0
    /\ backup_path = 0
    /\ runs = 0
    /\ obs = NoObs

\* the environment variables of steps/environment.py, unused elsewhere
NoEnvObs == [call |-> "none", environ |-> <<>>, file |-> <<>>, missing |-> {},
             ret |-> "none"]

EnvUnused ==
    /\ environ = <<>>
    /\ env_file = [exists |-> FALSE, vars |-> <<>>, mode |-> "none"]
    /\ env_checker = FALSE
    /\ required_vars = {}
    /\ env_vars = <<>>
    /\ env_calls = 0
    /\ env_obs = NoEnvObs

NoPollObs == [satisfied |-> 0, timedOut |-> FALSE]

PollUnused ==
    /\ poll_step = "none"
    /\ poll_bounds = <<>>
    /\ poll_no = 0
    /\ probes = 0
    /\ elapsed = 0
    /\ poll_obs = NoPollObs

NoDockerObs == [call |-> "none", existing |-> {}, attempted |-> {},
                created |-> {}, fault |-> FALSE, prev |-> "none"]

DockerUnused ==
    /\ networks = {}
    /\ volumes = {}
    /\ net_in_use = FALSE
    /\ docker_valid = FALSE
    /\ docker_runs = 0
    /\ docker_obs = NoDockerObs

NoKeycloak == [realms |-> {}, clients |-> {}, flows |-> {}, actions |-> {}]

KcUnused ==
    /\ keycloak = NoKeycloak
    /\ kc_config = <<>>
    /\ kc_step = "none"
    /\ kc_i = 0
    /\ kc_changes = <<>>
    /\ kc_calls = <<>>

NoFirewall == [file |-> [exists |-> FALSE, rules |-> {}], iptables |-> {},
               ufw |-> FALSE]

NoFwObs == [ret |-> "none", entry |-> NoFirewall, made |-> FALSE,
            snapshot |-> {}, evicted |-> {}]

FwUnused ==
    /\ firewall = NoFirewall
    /\ fw_backups = <<>>
    /\ fw_max = 0
    /\ fw_clock = 0
    /\ fw_runs = 0
    /\ fw_obs = NoFwObs

ContainerNames == {"keycloak", "postgres"}

NoKdObs == [ret |-> "none", entry |-> [n \in ContainerNames |-> "absent"],
            created |-> {}]

KdUnused ==
    /\ containers = [n \in ContainerNames |-> "absent"]
    /\ kd_runs = 0
    /\ kd_obs = NoKdObs

CmdUnused ==
    /\ cmd_load = <<>>
    /\ cmd_orch_ok = FALSE
    /\ cmd_step = 0
    /\ cmd_ret = "none"

OtherUnused == KdUnused /\ CmdUnused

AuxUnused ==
    EnvUnused /\ PollUnused /\ DockerUnused /\ KcUnused /\ FwUnused /\ OtherUnused

\* =========================================================================
\* StepOrchestrator (src/src/core/orchestrator.py)
\* =========================================================================

InitOrch ==
    /\ AuxUnused
    /\ steps = <<>>
    /\ can_cleanup = <<>>
    /\ can_skip = <<>>
    /\ pc = "build"
    /\ idx = 0
    /\ phase = "none"
    /\ log = <<>>
    /\ result = "none"
    /\ CertUnused

\* add_step(step): self.steps.append(step).  The callers add each step object
\* once (kcmanage/commands/deploy.py:126-129, kcmanage.py:93-96), so the k-th
\* call adds the step named k.  cc is the step's can_cleanup constructor flag.
AppendStep_front(list, s) == <<s>> \o list

AppendStep(list, s) == Append(list, s)

add_step(cc) ==
    /\ pc = "build"
    /\ Len(steps) < NumSteps
    /\ steps' = AppendStep(steps, Len(steps) + 1)
    /\ can_cleanup' = Append(can_cleanup, cc)
    /\ can_skip' = Append(can_skip, FALSE)
    /\ UNCHANGED <<pc, idx, phase, log, result>>
    /\ UNCHANGED <<certVars, auxVars>>

\* execute() is entered: the for loop starts at the first step.
StepOrchestrator_execute ==
    /\ pc = "build"
    /\ pc' = "loop"
    /\ idx' = 1
    /\ UNCHANGED <<steps, can_cleanup, can_skip, phase, log, result>>
    /\ UNCHANGED <<certVars, auxVars>>


\* for step in self.steps: with self.step_context(step): step.execute()
\* (lines 56-59).  The orchestrator calls execute() on every step it reaches;
\* it reads neither can_skip nor a completion check.  Whether the step's
\* target state was already in place is recorded as a fact of the environment
\* (the log entry "completed"); no code of the orchestrator depends on it.
EnterStep(s, c) ==
    (IF c THEN <<<<s, "completed", "true">>>> ELSE <<>>) \o <<<<s, "execute", "call">>>>

StepOrchestrator_call_step(c) ==
    /\ pc = "loop"
    /\ idx <= Len(steps)
    /\ pc' = "step"
    /\ phase' = "check_dependencies"
    /\ log' = log \o EnterStep(steps[idx], c)
    /\ UNCHANGED <<steps, can_cleanup, can_skip, idx, result>>
    /\ UNCHANGED <<certVars, auxVars>>

\* ---- BaseStep.execute (src/src/core/base.py:25-62), one action per call ----

\* line 30: _check_dependencies().  True: on to the environment; False: install;
\* an exception reaches the outer handler (line 60), which returns False.
AfterCheck(out) ==
    CASE out = "true"  -> "get_environment_variables"
      [] out = "false" -> "install_dependencies"
      [] OTHER         -> "return_false"

BaseStep_check_dependencies(out) ==
    /\ pc = "step"
    /\ phase = "check_dependencies"
    /\ log' = Append(log, <<steps[idx], "check_dependencies", out>>)
    /\ phase' = AfterCheck(out)
    /\ UNCHANGED <<steps, can_cleanup, can_skip, pc, idx, result>>
    /\ UNCHANGED <<certVars, auxVars>>

\* lines 32-34: _install_dependencies().  False or an exception: return False.
AfterInstall_ignored(out) == "get_environment_variables"

AfterInstall(out) ==
    IF out = "true" THEN "get_environment_variables" ELSE "return_false"

BaseStep_install_dependencies(out) ==
    /\ pc = "step"
    /\ phase = "install_dependencies"
    /\ log' = Append(log, <<steps[idx], "install_dependencies", out>>)
    /\ phase' = AfterInstall(out)
    /\ UNCHANGED <<steps, can_cleanup, can_skip, pc, idx, result>>
    /\ UNCHANGED <<certVars, auxVars>>

\* lines 37-41: _get_environment_variables() returns the variables or raises;
\* the handler of line 39 returns False.
AfterEnvironment_ignored(ok) == "deploy"

AfterEnvironment(ok) == IF ok THEN "deploy" ELSE "return_false"

BaseStep_get_environment_variables(ok) ==
    /\ pc = "step"
    /\ phase = "get_environment_variables"
    /\ log' = Append(log, <<steps[idx], "get_environment_variables", IF ok THEN "true" ELSE "raise">>)
    /\ phase' = AfterEnvironment(ok)
    /\ UNCHANGED <<steps, can_cleanup, can_skip, pc, idx, result>>
    /\ UNCHANGED <<certVars, auxVars>>

\* Where execute() goes after _deploy: True returns True (line 52); False goes
\* to the cleanup of line 48 and an exception to the cleanup of line 57, each
\* guarded by can_cleanup.
AfterDeploy_always_cleanup(out, cc) ==
    CASE out = "true"  -> "return_true"
      [] out = "false" -> "cleanup_48"
      [] OTHER         -> "cleanup_57"

AfterDeploy_propagates(out, cc) ==
    CASE out = "true"        -> "return_true"
      [] out = "false" /\ cc -> "cleanup_48"
      [] out = "false"       -> "return_false"
      [] OTHER               -> "raised"

AfterDeploy(out, cc) ==
    CASE out = "true"        -> "return_true"
      [] out = "false" /\ cc -> "cleanup_48"
      [] out = "raise" /\ cc -> "cleanup_57"
      [] OTHER               -> "return_false"

BaseStep_deploy(out) ==
    /\ pc = "step"
    /\ phase = "deploy"
    /\ log' = Append(log, <<steps[idx], "deploy", out>>)
    /\ phase' = AfterDeploy(out, can_cleanup[idx])
    /\ UNCHANGED <<steps, can_cleanup, can_skip, pc, idx, result>>
    /\ UNCHANGED <<certVars, auxVars>>

\* line 48: self._cleanup() inside the inner try.  When it raises, the handler
\* of line 54 runs and, can_cleanup being true, calls _cleanup() again (57).
BaseStep_cleanup_48(raises) ==
    /\ pc = "step"
    /\ phase = "cleanup_48"
    /\ log' = Append(log, <<steps[idx], "cleanup", IF raises THEN "raise" ELSE "true">>)
    /\ phase' = IF raises THEN "cleanup_57" ELSE "return_false"
    /\ UNCHANGED <<steps, can_cleanup, can_skip, pc, idx, result>>
    /\ UNCHANGED <<certVars, auxVars>>

\* line 57: self._cleanup() inside the handler of line 54.  When it raises, the
\* outer handler (line 60) returns False.
BaseStep_cleanup_57(raises) ==
    /\ pc = "step"
    /\ phase = "cleanup_57"
    /\ log' = Append(log, <<steps[idx], "cleanup", IF raises THEN "raise" ELSE "true">>)
    /\ phase' = "return_false"
    /\ UNCHANGED <<steps, can_cleanup, can_skip, pc, idx, result>>
    /\ UNCHANGED <<certVars, auxVars>>

\* ---- back in StepOrchestrator.execute ----

\* What the loop does with the value of step.execute() (lines 59-61): False
\* ends execute() with False, True moves to the next step.
AfterStep_continue(ret) == "loop"

AfterStep(ret) == IF ret = "return_true" THEN "loop" ELSE "done"

StepOrchestrator_step_returned ==
    /\ pc = "step"
    /\ phase \in {"return_true", "return_false"}
    /\ log' = Append(log, <<steps[idx], "return", IF phase = "return_true" THEN "true" ELSE "false">>)
    /\ pc' = AfterStep(phase)
    /\ idx' = IF AfterStep(phase) = "loop" THEN idx + 1 ELSE idx
    /\ result' = IF AfterStep(phase) = "loop" THEN result ELSE "false"
    /\ phase' = "none"
    /\ UNCHANGED <<steps, can_cleanup, can_skip>>
    /\ UNCHANGED <<certVars, auxVars>>

\* lines 62-64: an exception that escapes step.execute() (BaseStep.execute logs
\* at line 27 before its try; a step object may also bring its own execute) is
\* caught by the loop's handler, which returns False.
StepOrchestrator_step_raised ==
    /\ pc = "step"
    /\ phase = "check_dependencies"
    /\ log' = Append(log, <<steps[idx], "return", "raise">>)
    /\ pc' = "done"
    /\ result' = "false"
    /\ phase' = "none"
    /\ UNCHANGED <<steps, can_cleanup, can_skip, idx>>
    /\ UNCHANGED <<certVars, auxVars>>

\* lines 66-77: after the loop, the summary generator runs inside a try; its
\* result (True, False or an exception) is only logged and execute() is True.
AfterSummary_strict(out) == IF out = "true" THEN "true" ELSE "false"

AfterSummary(out) == "true"

StepOrchestrator_summary(out) ==
    /\ pc = "loop"
    /\ idx > Len(steps)
    /\ log' = Append(log, <<0, "summary", out>>)
    /\ pc' = "done"
    /\ result' = AfterSummary(out)
    /\ UNCHANGED <<steps, can_cleanup, can_skip, idx, phase>>
    /\ UNCHANGED <<certVars, auxVars>>

NextOrch ==
    \/ \E cc \in BOOLEAN : add_step(cc)
    \/ StepOrchestrator_execute
    \/ \E c \in BOOLEAN : StepOrchestrator_call_step(c)
    \/ \E out \in Outcomes : BaseStep_check_dependencies(out)
    \/ \E out \in Outcomes : BaseStep_install_dependencies(out)
    \/ \E ok \in BOOLEAN : BaseStep_get_environment_variables(ok)
    \/ \E out \in Outcomes : BaseStep_deploy(out)
    \/ \E r \in BOOLEAN : BaseStep_cleanup_48(r)
    \/ \E r \in BOOLEAN : BaseStep_cleanup_57(r)
    \/ StepOrchestrator_step_returned
    \/ StepOrchestrator_step_raised
    \/ \E out \in Outcomes : StepOrchestrator_summary(out)

SpecOrch == InitOrch /\ [][NextOrch]_vars


\* =========================================================================
\* DeploymentOrchestrator (src/src/deployment/orchestrator.py)
\* =========================================================================

\* __init__ builds the step list (lines 26-34); each step's constructor fixes
\* its can_cleanup and can_skip (src/src/depolyment/base.py:5-8).
InitDeploy ==
    /\ AuxUnused
    /\ steps = [i \in 1..NumSteps |-> i]
    /\ can_cleanup \in [1..NumSteps -> BOOLEAN]
    /\ can_skip \in [1..NumSteps -> BOOLEAN]
    /\ pc = "loop"
    /\ idx = 1
    /\ phase = "none"
    /\ log = <<>>
    /\ result = "none"
    /\ CertUnused

\* line 139: if step.can_skip and step.check_completed(): continue
ShouldSkip_never(cs, done) == FALSE

ShouldSkip(cs, done) == cs /\ done

\* The loop reaches a step with can_skip: check_completed() is called.  True
\* skips the step; False goes on to execute(); an exception is outside
\* step_context and leaves deploy().
DeploymentOrchestrator_check_completed(out) ==
    /\ pc = "loop"
    /\ idx <= Len(steps)
    /\ can_skip[idx]
    /\ log' = Append(log, <<steps[idx], "check_completed", out>>)
    /\ IF out = "raise"
          THEN /\ pc' = "done"
               /\ result' = "raised"
               /\ idx' = idx
          ELSE /\ pc' = IF ShouldSkip(can_skip[idx], out = "true") THEN "loop" ELSE "step"
               /\ idx' = IF ShouldSkip(can_skip[idx], out = "true") THEN idx + 1 ELSE idx
               /\ result' = result
    /\ UNCHANGED <<steps, can_cleanup, can_skip, phase>>
    /\ UNCHANGED <<certVars, auxVars>>

\* The loop reaches a step without can_skip: and short-circuits, so that
\* check_completed() is not called and the step is executed.
DeploymentOrchestrator_no_skip ==
    /\ pc = "loop"
    /\ idx <= Len(steps)
    /\ ~can_skip[idx]
    /\ pc' = "step"
    /\ UNCHANGED <<steps, can_cleanup, can_skip, idx, phase, log, result>>
    /\ UNCHANGED <<certVars, auxVars>>

\* lines 144-146 with step_context (36-44): execute() True moves on; False
\* returns False; an exception enters the handler, which calls cleanup() when
\* can_cleanup is set and raises again.
DeploymentStep_execute(out) ==
    /\ pc = "step"
    /\ phase = "none"
    /\ log' = Append(log, <<steps[idx], "execute", out>>)
    /\ CASE out = "true" ->
              /\ pc' = "loop"
              /\ idx' = idx + 1
              /\ UNCHANGED <<phase, result>>
         [] out = "false" ->
              /\ pc' = "done"
              /\ result' = "false"
              /\ UNCHANGED <<idx, phase>>
         [] OTHER ->
              /\ IF can_cleanup[idx]
                    THEN phase' = "cleanup" /\ UNCHANGED <<pc, result>>
                    ELSE pc' = "done" /\ result' = "raised" /\ phase' = phase
              /\ idx' = idx
    /\ UNCHANGED <<steps, can_cleanup, can_skip>>
    /\ UNCHANGED <<certVars, auxVars>>

\* line 43: step.cleanup() in the handler; whether it returns or raises
\* (DeploymentStep.cleanup raises NotImplementedError by default), an exception
\* leaves deploy().
DeploymentStep_cleanup(out) ==
    /\ pc = "step"
    /\ phase = "cleanup"
    /\ log' = Append(log, <<steps[idx], "cleanup", out>>)
    /\ pc' = "done"
    /\ result' = "raised"
    /\ phase' = "none"
    /\ UNCHANGED <<steps, can_cleanup, can_skip, idx>>
    /\ UNCHANGED <<certVars, auxVars>>

\* lines 148-149: _generate_installation_summary() is called outside any try:
\* its exception leaves deploy(); otherwise deploy() returns True.
DeploymentOrchestrator_summary(raises) ==
    /\ pc = "loop"
    /\ idx > Len(steps)
    /\ log' = Append(log, <<0, "summary", IF raises THEN "raise" ELSE "true">>)
    /\ pc' = "done"
    /\ result' = IF raises THEN "raised" ELSE "true"
    /\ UNCHANGED <<steps, can_cleanup, can_skip, idx, phase>>
    /\ UNCHANGED <<certVars, auxVars>>

NextDeploy ==
    \/ \E out \in Outcomes : DeploymentOrchestrator_check_completed(out)
    \/ DeploymentOrchestrator_no_skip
    \/ \E out \in Outcomes : DeploymentStep_execute(out)
    \/ \E out \in {"true", "false", "raise"} : DeploymentStep_cleanup(out)
    \/ \E r \in BOOLEAN : DeploymentOrchestrator_summary(r)

SpecDeploy == InitDeploy /\ [][NextDeploy]_vars

\* =========================================================================
\* CertificateManager (src/src/security/ssl.py), CertificateStep
\* (src/src/steps/certificates/certificatestep.py) and the backup rotation of
\* WazuhManager (src/src/security/wazuh.py)
\* =========================================================================

MaxRuns == 3

MaxCreations == 6

MaxRecords == 2

SmallCap == 2

\* BaseStep.__init__ sets name, can_cleanup, logger and required_vars; nothing
\* gives a CertificateStep the self.config its methods read, so each read
\* raises AttributeError inside the method's try block.
StepHasConfig == FALSE

\* (expiry - datetime.now()).days: timedelta.days is the whole days, rounded down
Days(rem) == rem \div 2

\* CertificateManager._validate_certificate (lines 25-71): the first failing
\* check gives the reason, "ok" stands for (True, None, expiry).  c is the file
\* at cert_path and k the content of the key file opened at line 59.
validate_certificate(c, k) ==
    CASE ~c.exists \/ ~c.parse           -> "Certificate validation failed"
      [] Days(c.rem) <= MinDaysValid     -> "Certificate expires in less than min_days_valid days"
      [] c.san \cap Domains = {}         -> "Certificate domains don't match configuration"
      [] k = 0 \/ k # c.pub              -> "Private key validation failed"
      [] OTHER                           -> "ok"

\* CertificateStep._validate_certificate (lines 33-88): after the parse, line 57
\* reads self.config; the AttributeError is caught at line 87.
CertificateStep_validate_certificate(c, k) ==
    IF ~StepHasConfig THEN "Certificate validation failed"
    ELSE validate_certificate(c, k)

\* the key file each implementation opens for the pairing check of a
\* certificate: CertificateManager always self.key_path, the live key (line
\* 59); CertificateStep the privkey.pem next to the certificate (line 73)
Validate(c, ownKey) ==
    IF impl = "step" THEN CertificateStep_validate_certificate(c, ownKey)
    ELSE validate_certificate(c, liveKey)

\* _verify_cert_chain (lines 73-107)
verify_cert_chain(c) == c.exists /\ c.parse /\ c.chain

check_completed_exists == liveCert.exists /\ liveKey # 0

\* check_completed (lines 178-195; certificatestep.py lines 265-271)
check_completed ==
    /\ liveCert.exists /\ liveKey # 0
    /\ Validate(liveCert, liveKey) = "ok"
    /\ verify_cert_chain(liveCert)

\* sorted(self.backup_dir.glob('*')): the records ordered by name, that is by
\* timestamp; backups.pop(0) is the one with the smallest.
Oldest(bk) == CHOOSE t \in DOMAIN bk : \A u \in DOMAIN bk : t <= u

Latest(bk) == CHOOSE t \in DOMAIN bk : \A u \in DOMAIN bk : u <= t

Remove(bk, t) == [u \in DOMAIN bk \ {t} |-> bk[u]]

RECURSIVE Evict_above_cap(_, _)
Evict_above_cap(bk, cap) ==
    IF Cardinality(DOMAIN bk) > cap /\ DOMAIN bk # {}
        THEN Evict_above_cap(Remove(bk, Oldest(bk)), cap)
        ELSE bk

\* lines 116-119: while len(backups) >= self.max_backups: remove the oldest
RECURSIVE Evict(_, _)
Evict(bk, cap) ==
    IF Cardinality(DOMAIN bk) >= cap /\ DOMAIN bk # {}
        THEN Evict(Remove(bk, Oldest(bk)), cap)
        ELSE bk

EmptyRecord == [cert |-> NoCert, key |-> 0]

BackupIO == {"ok", "rmtree", "copy_cert", "copy_key", "write_info"}

\* CertificateManager._manage_backups (lines 109-147) at wall-clock second now.
\* io names the file operation that raises, if any: "rmtree" the first rmtree,
\* "copy_cert" and "copy_key" the two copy2 calls, "write_info" the write of
\* backup_info.txt.  path is the return value (0 = None), created the record
\* directory that mkdir made or found (0 = none).
\*   - an exception anywhere is caught at line 145 and None is returned;
\*   - mkdir(exist_ok=True) reuses the directory of a record made in the same
\*     second, with the files it holds;
\*   - when fullchain.pem or privkey.pem is missing the function falls off its
\*     end: the empty record stays and None is returned.
manage_backups(io, now) ==
    LET full == Cardinality(DOMAIN backups) >= max_backups
        kept == Evict(backups, max_backups)
        dir  == IF now \in DOMAIN kept THEN kept[now] ELSE EmptyRecord
        put(r) == [u \in DOMAIN kept \cup {now} |-> IF u = now THEN r ELSE kept[u]]
        both == [cert |-> liveCert, key |-> liveKey]
    IN  CASE full /\ io = "rmtree" ->
                [backups |-> backups, path |-> 0, created |-> 0]
          [] ~(liveCert.exists /\ liveKey # 0) \/ io = "copy_cert" ->
                [backups |-> put(dir), path |-> 0, created |-> now]
          [] io = "copy_key" ->
                [backups |-> put([dir EXCEPT !.cert = liveCert]), path |-> 0,
                 created |-> now]
          [] io = "write_info" ->
                [backups |-> put(both), path |-> 0, created |-> now]
          [] OTHER ->
                [backups |-> put(both), path |-> now, created |-> now]

\* CertificateStep._manage_backups (lines 134-187): line 149 reads self.config
\* right after the directory listing; the AttributeError is caught at line 185
\* and None is returned with nothing removed and nothing created.
CertificateStep_manage_backups(io, now) ==
    IF ~StepHasConfig THEN [backups |-> backups, path |-> 0, created |-> 0]
    ELSE manage_backups(io, now)

\* WazuhManager._backup_config (lines 31-74): the same rotation; the record
\* directory is made, the configuration files are copied when the Wazuh
\* directory exists, and the path is returned unless something raised.  The
\* model keeps the record, not the configuration files in it.
WazuhManager_backup_config(io, now) ==
    LET full == Cardinality(DOMAIN backups) >= max_backups
        kept == Evict(backups, max_backups)
        put  == [u \in DOMAIN kept \cup {now} |->
                    IF u \in DOMAIN kept THEN kept[u] ELSE EmptyRecord]
    IN  CASE full /\ io = "rmtree" ->
                [backups |-> backups, path |-> 0, created |-> 0]
          [] io \in {"copy_cert", "copy_key", "write_info"} ->
                [backups |-> put, path |-> 0, created |-> now]
          [] OTHER ->
                [backups |-> put, path |-> now, created |-> now]

\* PrometheusManager._backup_config (prometheus.py lines 50-77): no rotation;
\* the record directory is made, the configuration trees are copied, and the
\* path is returned unless something raised.
PrometheusManager_backup_config(io, now) ==
    LET put == [u \in DOMAIN backups \cup {now} |->
                    IF u \in DOMAIN backups THEN backups[u] ELSE EmptyRecord]
    IN  IF io \in {"copy_cert", "copy_key", "write_info"}
            THEN [backups |-> put, path |-> 0, created |-> now]
            ELSE [backups |-> put, path |-> now, created |-> now]

BackupOf(io, now) ==
    CASE impl = "step"       -> CertificateStep_manage_backups(io, now)
      [] impl = "wazuh"      -> WazuhManager_backup_config(io, now)
      [] impl = "prometheus" -> PrometheusManager_backup_config(io, now)
      [] OTHER               -> manage_backups(io, now)

GarbageCert == [NoCert EXCEPT !.exists = TRUE]

GarbageKey == 0 - 1

RestoreIO == {"ok", "cert_open", "cert_write", "key_open", "key_write"}

\* The two shutil.copy2 calls of a restore (lines 169-170) from record b onto
\* the live files; writes counts the target files the call started to write.  A copy2 that raises has either not touched its target
\* (the source or the target could not be opened) or left it truncated (the
\* write failed); a record without privkey.pem makes the second copy raise.
CopyBack(b, io) ==
    CASE io = "cert_open"  ->
            [ret |-> FALSE, cert |-> liveCert, key |-> liveKey, writes |-> 0]
      [] io = "cert_write" ->
            [ret |-> FALSE, cert |-> GarbageCert, key |-> liveKey, writes |-> 1]
      [] io = "key_open" \/ b.key = 0 ->
            [ret |-> FALSE, cert |-> b.cert, key |-> liveKey, writes |-> 1]
      [] io = "key_write"  ->
            [ret |-> FALSE, cert |-> b.cert, key |-> GarbageKey, writes |-> 2]
      [] OTHER             ->
            [ret |-> TRUE, cert |-> b.cert, key |-> b.key, writes |-> 2]

Touched(b) ==
    [ret |-> TRUE, cert |-> GarbageCert, key |-> liveKey, src |-> b, writes |-> 1]

\* a restore call that returns False before it wrote anything
Untouched(b) ==
    [ret |-> FALSE, cert |-> liveCert, key |-> liveKey, src |-> b, writes |-> 0]

\* the record _restore_backup picks (lines 152-158): specific_backup when it is
\* given and exists, else the latest; 0 when there is none
PickBackup(specific) ==
    IF specific # 0 /\ specific \in DOMAIN backups THEN specific
    ELSE IF DOMAIN backups = {} THEN 0
    ELSE Latest(backups)

restore_unchecked(specific, io) ==
    LET t == PickBackup(specific)
    IN  IF t = 0 THEN Untouched(EmptyRecord)
        ELSE [src |-> backups[t]] @@ CopyBack(backups[t], io)

\* _restore_backup (lines 149-176; certificatestep.py lines 189-221): [ret,
\* cert, key] are the return value and the live files afterwards, src the
\* record used.  The record's certificate is validated first (line 162).
restore_backup(specific, io) ==
    LET t == PickBackup(specific)
    IN  IF t = 0 THEN Untouched(EmptyRecord)
        ELSE IF Validate(backups[t].cert, backups[t].key) # "ok"
            THEN Untouched(backups[t])
        ELSE [src |-> backups[t]] @@ CopyBack(backups[t], io)

\* what the history keeps of a restore call with result r
RestoreObs(r) ==
    [called |-> TRUE, ret |-> r.ret, src |-> r.src.cert, srcKey |-> r.src.key,
     preCert |-> liveCert, preKey |-> liveKey, postCert |-> r.cert, postKey |-> r.key,
     writes |-> r.writes, empty |-> DOMAIN backups = {}]

ConfigRestoreIO == {"ok", "first_open", "later_copy", "restart"}

\* WazuhManager._restore_backup (wazuh.py lines 76-113) and
\* PrometheusManager._restore_backup (prometheus.py lines 79-113) called
\* without a path: no record, return False at once; else copy the latest
\* record's files onto the configuration directory and restart the service.
\* Neither touches the certificate files.  io names what raises: the first
\* copy before it wrote ("first_open"), a later copy, or systemctl restart.
restore_latest_config(io) ==
    LET t == PickBackup(0)
    IN  IF t = 0 THEN Untouched(EmptyRecord)
        ELSE [ret |-> io = "ok", cert |-> liveCert, key |-> liveKey,
              src |-> backups[t],
              writes |-> CASE io = "first_open" -> 0
                           [] io = "later_copy" -> 1
                           [] OTHER             -> 2]

WazuhManager_restore_backup(io) == restore_latest_config(io)

PrometheusManager_restore_backup(io) == restore_latest_config(io)

RestoreLatestOf(io) ==
    CASE impl = "wazuh"      -> WazuhManager_restore_backup(io)
      [] impl = "prometheus" -> PrometheusManager_restore_backup(io)
      [] OTHER               -> restore_backup(0, io)

InitLive == {<<NoCert, 0>>, <<GoodCert(1), 1>>, <<ChainBadCert(1), 1>>,
             <<ExpiringCert(1), 1>>}

\* -------------------------------------------------------------------------
\* A run of the certificate step under its orchestrator
\* -------------------------------------------------------------------------

InitCert ==
    /\ AuxUnused
    /\ steps = <<1, 2>>
    /\ can_cleanup = <<FALSE, FALSE>>
    /\ can_skip = <<TRUE, TRUE>>
    /\ pc = "idle"
    /\ idx = 1
    /\ phase = "none"
    /\ log = <<>>
    /\ result = "none"
    /\ impl \in {"manager", "step"}
    /\ max_backups = MaxBackupsDefault
    /\ \E p \in InitLive : liveCert = p[1] /\ liveKey = p[2]
    /\ backups = <<>>
    /\ clock = 1
    /\ nextKey = 2
    /\ backup_path = 0
    /\ runs = 0
    /\ obs = NoObs

\* A run of the orchestrator reaches the certificate step (step 1 of the list).
Cert_begin_run ==
    /\ pc = "idle"
    /\ runs < MaxRuns
    /\ runs' = runs + 1
    /\ pc' = "step"
    /\ idx' = 1
    /\ phase' = "check_completed"
    /\ log' = <<>>
    /\ result' = "none"
    /\ backup_path' = 0
    /\ obs' = [NoObs EXCEPT !.entryCert = liveCert, !.entryKey = liveKey,
                             !.fault = obs.fault]
    /\ UNCHANGED <<auxVars, steps, can_cleanup, can_skip>>
    /\ UNCHANGED <<impl, max_backups, liveCert, liveKey, backups, clock, nextKey>>

\* ssl.py lines 199-201, certificatestep.py lines 265-271: valid certificates
\* already exist, nothing is done.
Cert_check_completed ==
    /\ pc = "step"
    /\ phase = "check_completed"
    /\ log' = Append(log, <<1, "check_completed", Bool(check_completed)>>)
    /\ phase' = IF check_completed THEN "return_true" ELSE "manage_backups"
    /\ UNCHANGED <<steps, can_cleanup, can_skip, pc, idx, result>>
    /\ UNCHANGED <<certVars, auxVars>>

\* the effect of one backup call with result r at second now
ApplyBackup(r, now, io) ==
    /\ backups' = r.backups
    /\ backup_path' = r.path
    /\ clock' = now
    /\ obs' = [obs EXCEPT !.created = r.created,
                          !.evicted = DOMAIN backups \ DOMAIN r.backups,
                          !.allOk = obs.allOk /\ r.path # 0,
                          !.fault = obs.fault \/ io # "ok"]

\* ssl.py line 204, certificatestep.py line 277: backup_path =
\* self._manage_backups().  CertificateStep goes on to certbot, CertificateManager
\* to the installation of certbot.
Cert_manage_backups(io, dt) ==
    /\ pc = "step"
    /\ phase = "manage_backups"
    /\ io = "rmtree" => Cardinality(DOMAIN backups) >= max_backups
    /\ ApplyBackup(BackupOf(io, clock + dt), clock + dt, io)
    /\ log' = Append(log, <<1, "manage_backups", Bool(BackupOf(io, clock + dt).path # 0)>>)
    /\ phase' = IF impl = "step" THEN "certbot" ELSE "install_certbot"
    /\ UNCHANGED <<auxVars, steps, can_cleanup, can_skip, pc, idx, result>>
    /\ UNCHANGED <<impl, max_backups, liveCert, liveKey, nextKey, runs>>

\* ssl.py lines 207-216: apt-get update and apt-get install certbot; a
\* CalledProcessError returns False.
CertificateManager_install_certbot(ok) ==
    /\ pc = "step" /\ impl = "manager"
    /\ phase = "install_certbot"
    /\ log' = Append(log, <<1, "install_certbot", Bool(ok)>>)
    /\ obs' = [obs EXCEPT !.mutated = TRUE]
    /\ phase' = IF ok THEN "certbot" ELSE "return_false"
    /\ UNCHANGED <<auxVars, steps, can_cleanup, can_skip, pc, idx, result>>
    /\ UNCHANGED <<impl, max_backups, liveCert, liveKey, backups, clock, nextKey,
                   backup_path, runs>>

\* What every failure handler does (ssl.py lines 237-242, 248-253, 259-264,
\* 283-288; certificatestep.py lines 298-304, 309-315, 320-326, 351-357): with
\* a backup_path, restore it and return its result; without one, return False.
Fallback(io) ==
    IF backup_path # 0 THEN restore_backup(backup_path, io)
    ELSE Untouched(EmptyRecord)

FallbackObs(io) ==
    IF backup_path # 0 THEN RestoreObs(Fallback(io)) ELSE obs.restore

\* the history of a run after a failure handler ran with file-operation input io
AfterFallback(io) ==
    [obs EXCEPT !.restore = FallbackObs(io), !.fault = obs.fault \/ io # "ok"]

\* a record whose certificate passes validation with the record's own key
ValidRecord(b) == validate_certificate(b.cert, b.key) = "ok"

HasValidBackup == \E t \in DOMAIN backups : ValidRecord(backups[t])

\* ssl.py lines 226-242, certificatestep.py lines 285-304: certbot certonly.
\* "fail": it exits non-zero and the live files are untouched; "kept": it exits
\* zero without replacing a certificate that is not due for renewal; else it
\* writes a new certificate with a new key pair.
Cert_certbot(kind, io) ==
    /\ pc = "step"
    /\ phase = "certbot"
    /\ (kind # "fail" \/ backup_path = 0) => io = "ok"
    /\ kind = "kept" => liveCert.exists /\ liveCert.parse /\ liveKey > 0
    /\ log' = Append(log, <<1, "certbot", kind>>)
    /\ CASE kind = "fail" ->
               /\ liveCert' = Fallback(io).cert
               /\ liveKey' = Fallback(io).key
               /\ phase' = IF Fallback(io).ret THEN "return_true" ELSE "return_false"
               /\ obs' = [AfterFallback(io) EXCEPT !.mutated = TRUE,
                                                   !.issuance = "failed",
                                                   !.validBackup = HasValidBackup]
               /\ nextKey' = nextKey
         [] kind = "kept" ->
               /\ phase' = "verify"
               /\ obs' = [obs EXCEPT !.mutated = TRUE, !.issuance = "kept"]
               /\ UNCHANGED <<liveCert, liveKey, nextKey>>
         [] OTHER ->
               /\ liveCert' = Issued(kind, nextKey)
               /\ liveKey' = nextKey
               /\ nextKey' = nextKey + 1
               /\ phase' = "verify"
               /\ obs' = [obs EXCEPT !.mutated = TRUE, !.issuance = "issued"]
    /\ UNCHANGED <<auxVars, steps, can_cleanup, can_skip, pc, idx, result>>
    /\ UNCHANGED <<impl, max_backups, backups, clock, backup_path, runs>>

\* ssl.py lines 244-264, certificatestep.py lines 306-326: the new certificate
\* is validated, then its chain verified; either failure goes to the fallback.
Cert_verify(io) ==
    /\ pc = "step"
    /\ phase = "verify"
    /\ LET good == Validate(liveCert, liveKey) = "ok" /\ verify_cert_chain(liveCert)
       IN  /\ (good \/ backup_path = 0) => io = "ok"
           /\ IF good
                 THEN /\ phase' = "setup_renewal"
                      /\ log' = Append(log, <<1, "verify", "true">>)
                      /\ UNCHANGED <<liveCert, liveKey, obs>>
                 ELSE /\ liveCert' = Fallback(io).cert
                      /\ liveKey' = Fallback(io).key
                      /\ phase' = IF Fallback(io).ret THEN "return_true"
                                  ELSE "return_false"
                      /\ log' = Append(log, <<1, "verify", "false">>)
                      /\ obs' = AfterFallback(io)
    /\ UNCHANGED <<auxVars, steps, can_cleanup, can_skip, pc, idx, result>>
    /\ UNCHANGED <<impl, max_backups, backups, clock, nextKey, backup_path, runs>>

\* ssl.py lines 266-288, certificatestep.py lines 328-357: the cron file is
\* written; an exception there reaches the outer handler, which goes to the
\* fallback.
Cert_setup_renewal(out, io) ==
    /\ pc = "step"
    /\ phase = "setup_renewal"
    /\ (out # "raise" \/ backup_path = 0) => io = "ok"
    /\ log' = Append(log, <<1, "setup_renewal", out>>)
    /\ IF out = "raise"
          THEN /\ liveCert' = Fallback(io).cert
               /\ liveKey' = Fallback(io).key
               /\ phase' = IF Fallback(io).ret THEN "return_true" ELSE "return_false"
               /\ obs' = AfterFallback(io)
          ELSE /\ phase' = "return_true"
               /\ UNCHANGED <<liveCert, liveKey, obs>>
    /\ UNCHANGED <<auxVars, steps, can_cleanup, can_skip, pc, idx, result>>
    /\ UNCHANGED <<impl, max_backups, backups, clock, nextKey, backup_path, runs>>

\* The orchestrator gets the step's value: True and it calls the next step,
\* False and the run ends (src/src/core/orchestrator.py:59-61,
\* src/src/deployment/orchestrator.py:145-146).  The next step is a stub.
Cert_step_returned ==
    /\ pc = "step"
    /\ phase \in {"return_true", "return_false"}
    /\ log' = Append(log, <<1, "return", IF phase = "return_true" THEN "true" ELSE "false">>)
              \o (IF AfterStep(phase) = "loop"
                    THEN <<<<2, "execute", "call">>>> ELSE <<>>)
    /\ result' = IF AfterStep(phase) = "loop"
                 THEN "true" ELSE "false"
    /\ pc' = "idle"
    /\ phase' = "none"
    /\ UNCHANGED <<steps, can_cleanup, can_skip, idx>>
    /\ UNCHANGED <<certVars, auxVars>>

\* CertificateManager._restore_backup() called without a record, between runs:
\* the latest record is the one restored.
CertificateManager_restore_latest(io) ==
    /\ pc = "idle" /\ impl = "manager"
    /\ runs > 0
    /\ ~obs.restore.called
    /\ liveCert' = restore_backup(0, io).cert
    /\ liveKey' = restore_backup(0, io).key
    /\ obs' = [NoObs EXCEPT !.restore = RestoreObs(restore_backup(0, io)),
                             !.fault = obs.fault \/ io # "ok"]
    /\ log' = <<>>
    /\ result' = "none"
    /\ UNCHANGED <<auxVars, steps, can_cleanup, can_skip, pc, idx, phase>>
    /\ UNCHANGED <<impl, max_backups, backups, clock, nextKey, backup_path, runs>>

NextCert ==
    \/ Cert_begin_run
    \/ Cert_check_completed
    \/ \E io \in BackupIO, dt \in {0, 1} : Cert_manage_backups(io, dt)
    \/ \E ok \in BOOLEAN : CertificateManager_install_certbot(ok)
    \/ \E kind \in IssuedKinds \cup {"fail", "kept"}, io \in RestoreIO :
            Cert_certbot(kind, io)
    \/ \E io \in RestoreIO : Cert_verify(io)
    \/ \E out \in {"ok", "raise"}, io \in RestoreIO : Cert_setup_renewal(out, io)
    \/ Cert_step_returned
    \/ \E io \in RestoreIO : CertificateManager_restore_latest(io)

SpecCert == InitCert /\ [][NextCert]_vars

\* -------------------------------------------------------------------------
\* Successive backup creations in one backup directory
\* -------------------------------------------------------------------------

InitRotation ==
    /\ AuxUnused
    /\ steps = <<1>>
    /\ can_cleanup = <<FALSE>>
    /\ can_skip = <<TRUE>>
    /\ pc = "backup"
    /\ idx = 1
    /\ phase = "none"
    /\ log = <<>>
    /\ result = "none"
    /\ impl \in {"manager", "step", "wazuh", "prometheus"}
    /\ max_backups \in {SmallCap, MaxBackupsDefault}
    /\ \E p \in InitLive : liveCert = p[1] /\ liveKey = p[2]
    /\ backups = <<>>
    /\ clock = 1
    /\ nextKey = 2
    /\ backup_path = 0
    /\ runs = 0
    /\ obs = NoObs

\* One more call of the backup method.  dt = 0: the call falls into the same
\* second as the previous one, strftime('%Y%m%d_%H%M%S') gives the same name.
CreateBackup(io, dt) ==
    /\ pc \in {"backup", "restore"}
    /\ runs < (IF pc = "backup" THEN MaxCreations ELSE MaxRecords)
    /\ io = "rmtree" => (impl # "prometheus" /\ Cardinality(DOMAIN backups) >= max_backups)
    /\ runs' = runs + 1
    /\ ApplyBackup(BackupOf(io, clock + dt), clock + dt, io)
    /\ UNCHANGED <<orchVars, auxVars>>
    /\ UNCHANGED <<impl, max_backups, liveCert, liveKey, nextKey>>

Call_CertificateManager_manage_backups(io, dt) ==
    impl = "manager" /\ CreateBackup(io, dt)

Call_CertificateStep_manage_backups(io, dt) ==
    impl = "step" /\ CreateBackup(io, dt)

Call_WazuhManager_backup_config(io, dt) ==
    impl = "wazuh" /\ CreateBackup(io, dt)

Call_PrometheusManager_backup_config(io, dt) ==
    impl = "prometheus" /\ CreateBackup(io, dt)

\* _restore_backup() called without a record path: restore the latest one
RestoreLatest(io) ==
    /\ pc = "restore"
    /\ (DOMAIN backups = {}) => io = "ok"
    /\ liveCert' = RestoreLatestOf(io).cert
    /\ liveKey' = RestoreLatestOf(io).key
    /\ obs' = [obs EXCEPT !.restore = RestoreObs(RestoreLatestOf(io)),
                          !.fault = obs.fault \/ io # "ok"]
    /\ UNCHANGED <<orchVars, auxVars>>
    /\ UNCHANGED <<impl, max_backups, backups, clock, nextKey, backup_path, runs>>

Call_CertificateManager_restore_backup(io) ==
    impl = "manager" /\ io \in RestoreIO /\ RestoreLatest(io)

Call_WazuhManager_restore_backup(io) ==
    impl = "wazuh" /\ io \in ConfigRestoreIO /\ RestoreLatest(io)

Call_PrometheusManager_restore_backup(io) ==
    impl = "prometheus" /\ io \in ConfigRestoreIO /\ RestoreLatest(io)

NextRotation ==
    \/ \E io \in BackupIO, dt \in {0, 1} : Call_CertificateManager_manage_backups(io, dt)
    \/ \E io \in BackupIO, dt \in {0, 1} : Call_CertificateStep_manage_backups(io, dt)
    \/ \E io \in BackupIO, dt \in {0, 1} : Call_WazuhManager_backup_config(io, dt)
    \/ \E io \in BackupIO, dt \in {0, 1} : Call_PrometheusManager_backup_config(io, dt)

SpecRotation == InitRotation /\ [][NextRotation]_vars

\* -------------------------------------------------------------------------
\* Backups and restores of the latest backup in one backup directory
\* -------------------------------------------------------------------------

InitRestore ==
    /\ AuxUnused
    /\ steps = <<1>>
    /\ can_cleanup = <<FALSE>>
    /\ can_skip = <<TRUE>>
    /\ pc = "restore"
    /\ idx = 1
    /\ phase = "none"
    /\ log = <<>>
    /\ result = "none"
    /\ impl \in {"manager", "wazuh", "prometheus"}
    /\ max_backups = MaxBackupsDefault
    /\ \E p \in InitLive : liveCert = p[1] /\ liveKey = p[2]
    /\ backups = <<>>
    /\ clock = 1
    /\ nextKey = 2
    /\ backup_path = 0
    /\ runs = 0
    /\ obs = NoObs

NextRestore ==
    \/ \E io \in BackupIO, dt \in {0, 1} : Call_CertificateManager_manage_backups(io, dt)
    \/ \E io \in BackupIO, dt \in {0, 1} : Call_WazuhManager_backup_config(io, dt)
    \/ \E io \in BackupIO, dt \in {0, 1} : Call_PrometheusManager_backup_config(io, dt)
    \/ \E io \in RestoreIO : Call_CertificateManager_restore_backup(io)
    \/ \E io \in ConfigRestoreIO : Call_WazuhManager_restore_backup(io)
    \/ \E io \in ConfigRestoreIO : Call_PrometheusManager_restore_backup(io)

SpecRestore == InitRestore /\ [][NextRestore]_vars

\* -------------------------------------------------------------------------
\* Certificate validation applied to one certificate file and key file
\* -------------------------------------------------------------------------

\* half-days left until notAfter, around the MinDaysValid boundary and far from it
RemInputs == {2 * MinDaysValid - 1, 2 * MinDaysValid, 2 * MinDaysValid + 1,
              2 * MinDaysValid + 2, 2 * MinDaysValid + 3, 6 * MinDaysValid}

CertInputs ==
    {NoCert, GarbageCert} \cup
    [exists : {TRUE}, parse : {TRUE}, rem : RemInputs,
     san : {{}, {"a.example"}, {"other.example"}, {"a.example", "other.example"}},
     pub : {1, 2}, chain : BOOLEAN]

KeyInputs == {0, 1, 2, GarbageKey}

InitValidate ==
    /\ AuxUnused
    /\ steps = <<1>>
    /\ can_cleanup = <<FALSE>>
    /\ can_skip = <<TRUE>>
    /\ pc = "validate"
    /\ idx = 1
    /\ phase = "none"
    /\ log = <<>>
    /\ result = "none"
    /\ impl \in {"manager", "step"}
    /\ max_backups = MaxBackupsDefault
    /\ liveCert \in CertInputs
    /\ liveKey \in KeyInputs
    /\ backups = <<>>
    /\ clock = 1
    /\ nextKey = 2
    /\ backup_path = 0
    /\ runs = 0
    /\ obs = NoObs

\* _validate_certificate(cert_path) on the live certificate; result is the
\* reason it returns ("ok": valid)
Call_validate_certificate ==
    /\ pc = "validate"
    /\ result' = Validate(liveCert, liveKey)
    /\ log' = Append(log, <<1, "validate_certificate", Validate(liveCert, liveKey)>>)
    /\ pc' = "validated"
    /\ UNCHANGED <<steps, can_cleanup, can_skip, idx, phase>>
    /\ UNCHANGED <<certVars, auxVars>>

\* the unmodified file c read when datetime.now() is dt half days later: its
\* notAfter is dt half days nearer
Later(c, dt) == IF c.exists /\ c.parse THEN [c EXCEPT !.rem = @ - dt] ELSE c

\* a second _validate_certificate(cert_path) on the same files, dt half days
\* after the first (line 43 reads datetime.now() at each call)
Call_validate_certificate_again(dt) ==
    /\ pc = "validated"
    /\ result' = Validate(Later(liveCert, dt), liveKey)
    /\ log' = Append(log, <<1, "validate_certificate", Validate(Later(liveCert, dt), liveKey)>>)
    /\ pc' = "validated_twice"
    /\ UNCHANGED <<steps, can_cleanup, can_skip, idx, phase>>
    /\ UNCHANGED <<certVars, auxVars>>

NextValidate ==
    \/ Call_validate_certificate
    \/ \E dt \in 0..1 : Call_validate_certificate_again(dt)

SpecValidate == InitValidate /\ [][NextValidate]_vars

\* =========================================================================
\* EnvironmentChecker (src/src/steps/environment.py) as used by
\* steps.base.BaseStep.execute (src/src/steps/base.py)
\* =========================================================================
MaxEnvCalls == 3

\* the variable names a step may require
Keys == {"KEYCLOAK_ADMIN", "KEYCLOAK_DOMAIN"}

\* a dict over Keys maps a name it does not hold to Unset; the other values
\* tell where a value came from
Unset == "unset"

EmptyDict == [k \in Keys |-> Unset]

KeysOf(d) == {k \in Keys : d[k] # Unset}

\* permission bits of a file: owner only, or readable by group and others
FileModes == {"0600", "0644"}

\* the mode open(path, 'w') gives a file it creates: 0666 & ~umask
ModeOfNew(umask) == IF umask = "077" THEN "0600" ELSE "0644"

Umasks == {"022", "077"}

\* open(path, 'w') and Path.write_text: a file that exists keeps its mode
ModeAfterWrite(umask) ==
    IF env_file.exists THEN env_file.mode ELSE ModeOfNew(umask)

NoEnvFile == [exists |-> FALSE, vars |-> EmptyDict, mode |-> "none"]

\* load_dotenv(path) with its default override=False: a name of the file is
\* put into os.environ unless os.environ already holds it
load_dotenv(e) == [k \in Keys |-> IF e[k] # Unset THEN e[k] ELSE env_file.vars[k]]

\* load_environment(): without the file nothing is read and self.env_vars is
\* left as it was; with it, the file is merged into os.environ and the whole
\* of os.environ becomes self.env_vars
load_environment(e, v) ==
    IF ~env_file.exists
    THEN [environ |-> e, env_vars |-> v]
    ELSE [environ |-> load_dotenv(e), env_vars |-> load_dotenv(e)]

\* check_required_vars(): loads only while self.env_vars is empty
check_required_vars(e, v) ==
    LET s == IF KeysOf(v) = {} THEN load_environment(e, v)
                               ELSE [environ |-> e, env_vars |-> v]
    IN  [environ |-> s.environ, env_vars |-> s.env_vars,
         missing |-> {k \in required_vars : s.env_vars[k] = Unset}]

prompt_for_missing_vars_accepts(e, v) ==
    LET r == check_required_vars(e, v)
    IN  [environ |-> r.environ, env_vars |-> r.env_vars,
         missing |-> r.missing, ret |-> TRUE]

\* prompt_for_missing_vars(): checks again and returns whether nothing is missing
prompt_for_missing_vars(e, v) ==
    LET r == check_required_vars(e, v)
    IN  [environ |-> r.environ, env_vars |-> r.env_vars,
         missing |-> r.missing, ret |-> r.missing = {}]

check_and_process_environment(e, v) ==
    LET r == check_required_vars(e, v)
    IN  IF r.missing # {}
        THEN prompt_for_missing_vars(r.environ, r.env_vars)
        ELSE [environ |-> r.environ, env_vars |-> r.env_vars,
              missing |-> {}, ret |-> TRUE]

\* BaseStep.check_environment(): true without a checker
check_environment(e, v) ==
    IF ~env_checker
    THEN [environ |-> e, env_vars |-> v, missing |-> {}, ret |-> TRUE]
    ELSE check_and_process_environment(e, v)

InitEnv ==
    /\ steps = <<1>>
    /\ can_cleanup = <<TRUE>>
    /\ can_skip = <<FALSE>>
    /\ pc = "env"
    /\ idx = 1
    /\ phase = "none"
    /\ log = <<>>
    /\ result = "none"
    /\ CertUnused
    /\ PollUnused
    /\ DockerUnused
    /\ KcUnused
    /\ FwUnused
    /\ OtherUnused
    /\ environ \in [Keys -> {Unset, "proc"}]
    /\ env_file \in {NoEnvFile} \cup
                    [exists : {TRUE}, vars : [Keys -> {Unset, "file"}],
                     mode : FileModes]
    /\ env_checker \in BOOLEAN
    /\ required_vars \in (IF env_checker THEN SUBSET Keys ELSE {{}})
    /\ env_vars = EmptyDict
    /\ env_calls = 0
    /\ env_obs = NoEnvObs

\* BaseStep.execute() of steps/base.py: the environment check, then the
\* dependency check (dep: what the dependency checker answers)
BaseStep_execute(dep) ==
    /\ pc = "env"
    /\ env_calls < MaxEnvCalls
    /\ LET r == check_environment(environ, env_vars)
           ret == Bool(r.ret /\ dep)
       IN  /\ r.ret \/ dep
           /\ environ' = r.environ
           /\ env_vars' = r.env_vars
           /\ result' = ret
           /\ env_obs' = [call |-> "execute", environ |-> environ,
                          file |-> env_file, missing |-> r.missing, ret |-> ret]
    /\ env_calls' = env_calls + 1
    /\ UNCHANGED <<env_file, env_checker, required_vars>>
    /\ UNCHANGED <<steps, can_cleanup, can_skip, pc, idx, phase, log>>
    /\ UNCHANGED <<certVars, pollVars, dockerVars, kcVars, fwVars, kdVars, cmdVars>>

\* EnvironmentChecker.get_var(var_name): loads while self.env_vars is empty
EnvironmentChecker_get_var(k) ==
    /\ pc = "env"
    /\ env_checker
    /\ env_calls < MaxEnvCalls
    /\ LET s == IF KeysOf(env_vars) = {} THEN load_environment(environ, env_vars)
                                         ELSE [environ |-> environ, env_vars |-> env_vars]
       IN  /\ environ' = s.environ
           /\ env_vars' = s.env_vars
           /\ env_obs' = [call |-> "get_var", environ |-> environ,
                          file |-> env_file, missing |-> {}, ret |-> s.env_vars[k]]
    /\ env_calls' = env_calls + 1
    /\ UNCHANGED <<env_file, env_checker, required_vars>>
    /\ UNCHANGED <<orchVars, certVars, pollVars, dockerVars, kcVars, fwVars, kdVars,
                 cmdVars>>

\* EnvironmentChecker.set_var(var_name, value)
EnvironmentChecker_set_var(k) ==
    /\ pc = "env"
    /\ env_checker
    /\ env_calls < MaxEnvCalls
    /\ env_vars' = [env_vars EXCEPT ![k] = "set"]
    /\ environ' = [environ EXCEPT ![k] = "set"]
    /\ env_obs' = [call |-> "set_var", environ |-> environ, file |-> env_file,
                   missing |-> {}, ret |-> "none"]
    /\ env_calls' = env_calls + 1
    /\ UNCHANGED <<env_file, env_checker, required_vars>>
    /\ UNCHANGED <<orchVars, certVars, pollVars, dockerVars, kcVars, fwVars, kdVars,
                 cmdVars>>

SaveIO == {"ok", "open", "write"}

\* EnvironmentChecker.save_environment(): open(.env, 'w') and one line per
\* item of self.env_vars; io = "open": the open fails, "write": the file was
\* truncated by the open and the writing fails; umask is the process's
EnvironmentChecker_save_environment(io, umask) ==
    /\ pc = "env"
    /\ env_checker
    /\ env_calls < MaxEnvCalls
    /\ env_file.exists => umask = "022"
    /\ env_file' = CASE io = "ok"   -> [exists |-> TRUE, vars |-> env_vars,
                                       mode |-> ModeAfterWrite(umask)]
                     [] io = "open" -> env_file
                     [] OTHER       -> [exists |-> TRUE, vars |-> EmptyDict,
                                        mode |-> ModeAfterWrite(umask)]
    /\ env_obs' = [call |-> "save_environment", environ |-> environ,
                   file |-> env_file, missing |-> {}, ret |-> Bool(io = "ok")]
    /\ env_calls' = env_calls + 1
    /\ UNCHANGED <<environ, env_vars, env_checker, required_vars>>
    /\ UNCHANGED <<orchVars, certVars, pollVars, dockerVars, kcVars, fwVars, kdVars,
                 cmdVars>>

\* EnvironmentSetup.save_environment(config) of src/src/utils/environment.py:
\* Path('.env').write_text of the collected configuration, which holds
\* KEYCLOAK_DOMAIN and no KEYCLOAK_ADMIN
EnvironmentSetup_save_environment(umask) ==
    /\ pc = "env"
    /\ env_calls < MaxEnvCalls
    /\ env_file.exists => umask = "022"
    /\ env_file' = [exists |-> TRUE,
                    vars |-> [k \in Keys |-> IF k = "KEYCLOAK_DOMAIN"
                                             THEN "setup" ELSE Unset],
                    mode |-> ModeAfterWrite(umask)]
    /\ env_obs' = [call |-> "setup_save_environment", environ |-> environ,
                   file |-> env_file, missing |-> {}, ret |-> "true"]
    /\ env_calls' = env_calls + 1
    /\ UNCHANGED <<environ, env_vars, env_checker, required_vars>>
    /\ UNCHANGED <<orchVars, certVars, pollVars, dockerVars, kcVars, fwVars, kdVars,
                 cmdVars>>

NextEnv ==
    \/ \E dep \in BOOLEAN : BaseStep_execute(dep)
    \/ \E k \in Keys : EnvironmentChecker_get_var(k)
    \/ \E k \in Keys : EnvironmentChecker_set_var(k)
    \/ \E io \in SaveIO, um \in Umasks : EnvironmentChecker_save_environment(io, um)
    \/ \E um \in Umasks : EnvironmentSetup_save_environment(um)

SpecEnv == InitEnv /\ [][NextEnv]_vars

\* =========================================================================
\* Readiness polls: KeycloakDeployStep._wait_for_container
\* (src/src/steps/keycloak/deploy.py), KeycloakDeploymentStep.
\* _wait_for_container_health and _verify_keycloak_running
\* (src/src/keycloak/deploy.py), KeycloakConfigStep._wait_for_keycloak
\* (src/src/keycloak/config/base.py), each inside the step that calls it
\* =========================================================================

\* the largest bound of a poll; the source's bounds are 60 and 120 probes,
\* 180 s and 30 s in sleeps of 5 s, and 30 retries
MaxWait == 3

PollSteps == {"KeycloakDeployStep", "KeycloakDeploymentStep", "KeycloakConfigStep"}

\* polls one run of the step makes when every poll is satisfied
NumPolls(s) ==
    CASE s = "KeycloakDeployStep"     -> 2
      [] s = "KeycloakDeploymentStep" -> 3
      [] OTHER                        -> 1

\* for i in range(max_wait)
range_has_next(i, max_wait) == i < max_wait

within_timeout_forever(t, timeout) == TRUE

\* while time.time() - start_time < timeout
within_timeout(t, timeout) == t < timeout

\* while retry < max_retries
retry_left(retry, max_retries) == retry < max_retries

InitPoll ==
    /\ steps = <<1>>
    /\ can_cleanup = <<TRUE>>
    /\ can_skip = <<FALSE>>
    /\ pc = "poll"
    /\ idx = 1
    /\ phase = "none"
    /\ log = <<>>
    /\ result = "none"
    /\ CertUnused
    /\ EnvUnused
    /\ DockerUnused
    /\ KcUnused
    /\ FwUnused
    /\ OtherUnused
    /\ poll_step \in PollSteps
    /\ poll_bounds \in [1..NumPolls(poll_step) -> 1..MaxWait]
    /\ poll_no = 1
    /\ probes = 0
    /\ elapsed = 0
    /\ poll_obs = NoPollObs

PollFrame ==
    /\ UNCHANGED <<steps, can_cleanup, can_skip, idx, phase, log>>
    /\ UNCHANGED <<certVars, envVars, dockerVars, kcVars, fwVars, kdVars, cmdVars>>
    /\ UNCHANGED <<poll_step, poll_bounds>>

\* the poll returned True: the step goes on to its next poll (next_ok: the
\* commands before it succeeded) or, after its last poll, returns rest
PollSatisfied(next_ok, rest) ==
    /\ poll_obs' = [poll_obs EXCEPT !.satisfied = @ + 1]
    /\ IF poll_no < NumPolls(poll_step) /\ next_ok
       THEN /\ poll_no' = poll_no + 1
            /\ probes' = 0
            /\ elapsed' = 0
            /\ UNCHANGED <<pc, result>>
       ELSE /\ pc' = "done"
            /\ result' = Bool(poll_no = NumPolls(poll_step) /\ rest)
            /\ UNCHANGED <<poll_no, probes, elapsed>>

\* the poll ended without success and the step returns False
PollFailed(timed_out) ==
    /\ pc' = "done"
    /\ result' = "false"
    /\ poll_obs' = [poll_obs EXCEPT !.timedOut = @ \/ timed_out]
    /\ UNCHANGED <<poll_no, probes, elapsed>>

PollAgain(dt) ==
    /\ elapsed' = elapsed + dt
    /\ UNCHANGED <<pc, result, poll_no, poll_obs>>

\* one iteration of _wait_for_container: docker inspect says healthy, says
\* something else, or raises (caught inside the loop); then sleep(1)
KeycloakDeployStep_wait_for_container(out, next_ok) ==
    /\ pc = "poll"
    /\ poll_step = "KeycloakDeployStep"
    /\ range_has_next(probes, poll_bounds[poll_no])
    /\ probes <= MaxWait
    /\ out = "healthy" \/ next_ok
    /\ IF out = "healthy"
       THEN PollSatisfied(next_ok, TRUE)
       ELSE PollAgain(1) /\ probes' = probes + 1
    /\ PollFrame

\* range(max_wait) is used up: _wait_for_container returns False and _deploy
\* returns False (lines 173-175, 220-222)
KeycloakDeployStep_wait_exhausted ==
    /\ pc = "poll"
    /\ poll_step = "KeycloakDeployStep"
    /\ ~range_has_next(probes, poll_bounds[poll_no])
    /\ PollFailed(TRUE)
    /\ PollFrame

\* one iteration of _wait_for_container_health: reload() raises (execute's
\* handler cleans up and returns False), the status is healthy, unhealthy
\* (return False, then the same handler) or something else; then sleep(5),
\* and dt sleeps have passed when the loop condition is read again
KeycloakDeploymentStep_wait_for_container_health(out, dt, next_ok) ==
    /\ pc = "poll"
    /\ poll_step = "KeycloakDeploymentStep"
    /\ poll_no < NumPolls(poll_step)
    /\ within_timeout(elapsed, poll_bounds[poll_no])
    /\ probes <= MaxWait
    /\ out = "healthy" \/ next_ok
    /\ out = "waiting" \/ dt = 1
    /\ CASE out = "healthy" -> PollSatisfied(next_ok, TRUE)
         [] out = "waiting" -> PollAgain(dt) /\ probes' = probes + 1
         [] OTHER           -> PollFailed(FALSE)
    /\ PollFrame

\* one iteration of _verify_keycloak_running: the response is 200, is
\* something else or a RequestException, or another exception leaves the loop
KeycloakDeploymentStep_verify_keycloak_running(out, dt) ==
    /\ pc = "poll"
    /\ poll_step = "KeycloakDeploymentStep"
    /\ poll_no = NumPolls(poll_step)
    /\ within_timeout(elapsed, poll_bounds[poll_no])
    /\ probes <= MaxWait
    /\ out = "waiting" \/ dt = 1
    /\ CASE out = "healthy" -> PollSatisfied(TRUE, TRUE)
         [] out = "waiting" -> PollAgain(dt) /\ probes' = probes + 1
         [] OTHER           -> PollFailed(FALSE)
    /\ PollFrame

\* the timeout has passed: the poll returns False, execute() raises and its
\* handler cleans up and returns False (lines 113, 161-175)
KeycloakDeploymentStep_wait_timed_out ==
    /\ pc = "poll"
    /\ poll_step = "KeycloakDeploymentStep"
    /\ ~within_timeout(elapsed, poll_bounds[poll_no])
    /\ PollFailed(TRUE)
    /\ PollFrame

\* one iteration of _wait_for_keycloak: curl exits 0 (return, and the rest
\* of the step's execute returns rest), exits non-zero (CalledProcessError:
\* retry += 1, sleep 5) or another exception leaves the loop and execute()
\* returns False
KeycloakConfigStep_wait_for_keycloak(out, rest) ==
    /\ pc = "poll"
    /\ poll_step = "KeycloakConfigStep"
    /\ retry_left(probes, poll_bounds[poll_no])
    /\ probes <= MaxWait
    /\ out = "healthy" \/ rest
    /\ CASE out = "healthy" -> PollSatisfied(TRUE, rest)
         [] out = "waiting" -> PollAgain(1) /\ probes' = probes + 1
         [] OTHER           -> PollFailed(FALSE)
    /\ PollFrame

\* max_retries is used up: TimeoutError, which the step's execute catches
\* and turns into False (e.g. steps/keycloak/config/realm.py:58-60)
KeycloakConfigStep_wait_timed_out ==
    /\ pc = "poll"
    /\ poll_step = "KeycloakConfigStep"
    /\ ~retry_left(probes, poll_bounds[poll_no])
    /\ PollFailed(TRUE)
    /\ PollFrame

ProbeOutcomes == {"healthy", "waiting", "unhealthy", "raise"}

NextPoll ==
    \/ \E out \in {"healthy", "waiting", "raise"}, n \in BOOLEAN :
            KeycloakDeployStep_wait_for_container(out, n)
    \/ KeycloakDeployStep_wait_exhausted
    \/ \E out \in ProbeOutcomes, dt \in 1..2, n \in BOOLEAN :
            KeycloakDeploymentStep_wait_for_container_health(out, dt, n)
    \/ \E out \in {"healthy", "waiting", "raise"}, dt \in 1..2 :
            KeycloakDeploymentStep_verify_keycloak_running(out, dt)
    \/ KeycloakDeploymentStep_wait_timed_out
    \/ \E out \in {"healthy", "waiting", "raise"}, rest \in BOOLEAN :
            KeycloakConfigStep_wait_for_keycloak(out, rest)
    \/ KeycloakConfigStep_wait_timed_out

\* every probe returns: an enabled step of a poll is eventually taken
SpecPoll == InitPoll /\ [][NextPoll]_vars /\ WF_vars(NextPoll)

\* =========================================================================
\* DockerSetupStep (src/src/steps/docker/setup.py)
\* =========================================================================
MaxDeploys == 3

NetworkName == "keycloak-network"

VolumeNames == {"keycloak-data", "postgres-data"}

\* the resources _deploy looks at, in the order it looks at them
Resources == <<NetworkName, "keycloak-data", "postgres-data">>

\* what a docker command of one _deploy does wrong: nothing, the inspect of
\* resource i exits non-zero although the resource exists, or the create of
\* resource i fails
DockerIO ==
    {<<"none", 0>>} \cup ({"inspect", "create"} \X (1..Len(Resources)))

ShouldCreate_always(returncode) == TRUE

\* lines 45 and 65: if <inspect>.returncode != 0
ShouldCreate(returncode) == returncode # 0

\* the i-th resource of _deploy, on the state st the earlier ones left
DeployResource(i, st, io) ==
    LET r == Resources[i]
        exists == r \in st.networks \cup st.volumes
        returncode == IF exists /\ io # <<"inspect", i>> THEN 0 ELSE 1
    IN  IF ~st.ok \/ ~ShouldCreate(returncode) THEN st
        ELSE IF io = <<"create", i>> \/ (exists /\ r = NetworkName)
        THEN \* docker ... create exits non-zero: _run_command raises
             [st EXCEPT !.ok = FALSE, !.attempted = @ \cup {r}]
        ELSE [st EXCEPT !.attempted = @ \cup {r},
                        !.created = IF exists THEN @ ELSE @ \cup {r},
                        !.networks = IF r = NetworkName THEN @ \cup {r} ELSE @,
                        !.volumes = IF r = NetworkName THEN @ ELSE @ \cup {r}]

\* _deploy's try block: network, then the two volumes
DeployResources(io) ==
    LET st0 == [networks |-> networks, volumes |-> volumes, ok |-> TRUE,
                attempted |-> {}, created |-> {}]
    IN  DeployResource(3, DeployResource(2, DeployResource(1, st0, io), io), io)

InitDocker ==
    /\ steps = <<1>>
    /\ can_cleanup = <<TRUE>>
    /\ can_skip = <<FALSE>>
    /\ pc = "docker"
    /\ idx = 1
    /\ phase = "none"
    /\ log = <<>>
    /\ result = "none"
    /\ CertUnused
    /\ EnvUnused
    /\ PollUnused
    /\ KcUnused
    /\ FwUnused
    /\ OtherUnused
    /\ networks \in SUBSET {NetworkName}
    /\ volumes \in SUBSET VolumeNames
    /\ net_in_use \in BOOLEAN
    /\ docker_valid \in BOOLEAN
    /\ docker_runs = 0
    /\ docker_obs = NoDockerObs

DockerFrame ==
    /\ UNCHANGED <<steps, can_cleanup, can_skip, idx, phase, log>>
    /\ UNCHANGED <<certVars, envVars, pollVars, kcVars, fwVars, kdVars, cmdVars>>
    /\ UNCHANGED <<net_in_use, docker_valid>>

\* DockerSetupStep._deploy(env_vars); a false return is followed by _cleanup
\* (core/base.py:46-48)
DockerSetupStep_deploy(io) ==
    /\ pc = "docker"
    /\ docker_runs < MaxDeploys
    /\ docker_valid \/ io = <<"none", 0>>
    /\ LET st == DeployResources(io)
           ret == docker_valid /\ st.ok
       IN  /\ networks' = IF docker_valid THEN st.networks ELSE networks
           /\ volumes' = IF docker_valid THEN st.volumes ELSE volumes
           /\ result' = Bool(ret)
           /\ pc' = IF ret THEN "docker" ELSE "docker_failed"
           /\ docker_obs' = [call |-> "deploy",
                             existing |-> networks \cup volumes,
                             attempted |-> IF docker_valid THEN st.attempted ELSE {},
                             created |-> IF docker_valid THEN st.created ELSE {},
                             fault |-> io # <<"none", 0>>,
                             prev |-> result]
    /\ docker_runs' = docker_runs + 1
    /\ DockerFrame

\* DockerSetupStep._cleanup(): the network is removed when docker reports it
\* and reports no containers attached to it (inspect_ok: the inspect output
\* could be read); volumes are never removed
DockerSetupStep_cleanup(inspect_ok) ==
    /\ pc = "docker_failed"
    /\ pc' = "docker"
    /\ networks' = IF inspect_ok /\ ~net_in_use THEN networks \ {NetworkName}
                                                ELSE networks
    /\ docker_obs' = [docker_obs EXCEPT !.call = "cleanup"]
    /\ UNCHANGED <<volumes, docker_runs, result>>
    /\ DockerFrame

NextDocker ==
    \/ \E io \in DockerIO : DockerSetupStep_deploy(io)
    \/ \E ok \in BOOLEAN : DockerSetupStep_cleanup(ok)

SpecDocker == InitDocker /\ [][NextDocker]_vars

\* =========================================================================
\* Keycloak configuration steps (src/src/steps/keycloak/config)
\* =========================================================================
\* KeycloakConfigurationManager.configure_all runs the configuration steps in
\* order; the realm, clients and authentication steps are followed here.  The
\* Keycloak server is the sets of realm names, client ids, flow aliases and
\* required-action aliases it holds.  Every admin call is recorded in kc_calls.

MaxClients == 2

ClientIds == {"web", "api"}

RealmName == "test-realm"

FlowAlias == "browser"

ActionAlias == "CONFIGURE_TOTP"

ClientLists ==
    UNION {[1..n -> ClientIds] : n \in 0..MaxClients}

KcCall(step, i, verb, path, key, found) ==
    [step |-> step, i |-> i, verb |-> verb, path |-> path, key |-> key,
     found |-> found]

\* `if existing:` of the create-or-update branches
if_existing_never(existing) == FALSE

if_existing(existing) == existing

\* the calls of one create-or-update: the lookup, then _update_* (which looks
\* the resource up again) or _create_*
CreateOrUpdate(step, i, key, found, getPath, createPath, updatePath) ==
    <<KcCall(step, i, "get", getPath, key, found)>>
    \o (IF if_existing(found)
        THEN <<KcCall(step, i, "get", getPath, key, found),
               KcCall(step, i, "update", updatePath, key, FALSE)>>
        ELSE <<KcCall(step, i, "create", createPath, key, FALSE)>>)

\* the server rejects the creation of a resource that exists
Rejected(found) == ~if_existing(found) /\ found

InitKc ==
    /\ steps = <<>>
    /\ can_cleanup = <<>>
    /\ can_skip = <<>>
    /\ pc = "kc"
    /\ idx = 0
    /\ phase = "idle"
    /\ log = <<>>
    /\ result = "none"
    /\ CertUnused
    /\ EnvUnused
    /\ PollUnused
    /\ DockerUnused
    /\ FwUnused
    /\ OtherUnused
    /\ keycloak \in [realms : SUBSET {RealmName}, clients : SUBSET ClientIds,
                     flows : SUBSET {FlowAlias}, actions : SUBSET {ActionAlias}]
    /\ kc_config \in ClientLists
    /\ kc_step = "realm"
    /\ kc_i = 0
    /\ kc_changes = <<>>
    /\ kc_calls = <<>>

KcFrame ==
    UNCHANGED <<certVars, envVars, pollVars, dockerVars, fwVars, kdVars, cmdVars,
                steps, can_cleanup,
                can_skip, idx, phase>>

\* configure_all's `except Exception: raise click.ClickException(...)`
ConfigureAllRaises(step) ==
    /\ pc' = "done"
    /\ result' = "raised"
    /\ log' = Append(log, <<step, "configure", "raised">>)
    /\ kc_step' = "failed"

RealmIO == {"ok", "unreachable", "security_fails"}

\* RealmConfigStep.execute: every exception ends in `return False`, and
\* configure_all does not read what the call returns
RealmConfigStep_execute(io) ==
    /\ pc = "kc"
    /\ kc_step = "realm"
    /\ LET found == RealmName \in keycloak.realms
           get == KcCall("realm", 1, "get", "realms/<name>", RealmName, found)
           create == KcCall("realm", 1, "create", "realms", RealmName, FALSE)
           update == KcCall("realm", 1, "update", "realms/<name>", RealmName,
                            FALSE)
       IN  IF io = "unreachable"
           THEN /\ log' = Append(log, <<"realm", "execute", "false">>)
                /\ UNCHANGED <<keycloak, kc_changes, kc_calls>>
           ELSE /\ kc_changes' = Append(kc_changes,
                                    IF found THEN "realm_update"
                                             ELSE "realm_create")
                /\ IF found
                   THEN /\ kc_calls' = kc_calls \o <<get, create>>
                        /\ log' = Append(log, <<"realm", "execute", "false">>)
                        /\ UNCHANGED keycloak
                   ELSE /\ keycloak' = [keycloak EXCEPT
                                           !.realms = @ \cup {RealmName}]
                        /\ kc_calls' = kc_calls \o <<get, create, update>>
                        /\ log' = Append(log,
                               <<"realm", "execute",
                                 IF io = "ok" THEN "true" ELSE "false">>)
    /\ kc_step' = "clients"
    /\ kc_i' = 1
    /\ UNCHANGED <<pc, result, kc_config>>
    /\ KcFrame

ClientIO == {"ok", "call_raises"}

\* one pass of the loop of ClientConfigStep.execute
ClientConfigStep_execute_client(io) ==
    /\ pc = "kc"
    /\ kc_step = "clients"
    /\ kc_i <= Len(kc_config)
    /\ LET c == kc_config[kc_i]
           found == c \in keycloak.clients
       IN  /\ kc_calls' = kc_calls \o
                  CreateOrUpdate("clients", kc_i, c, found, "clients?clientId",
                                 "clients", "clients/<id>")
           /\ IF io = "call_raises" \/ Rejected(found)
              THEN /\ ConfigureAllRaises("clients")
                   /\ UNCHANGED <<keycloak, kc_i>>
              ELSE /\ keycloak' = [keycloak EXCEPT !.clients = @ \cup {c}]
                   /\ kc_i' = kc_i + 1
                   /\ UNCHANGED <<pc, result, log, kc_step>>
    /\ UNCHANGED <<kc_config, kc_changes>>
    /\ KcFrame

\* the end of the loop: ClientConfigStep.execute returns True
ClientConfigStep_execute_return ==
    /\ pc = "kc"
    /\ kc_step = "clients"
    /\ kc_i > Len(kc_config)
    /\ log' = Append(log, <<"clients", "execute", "true">>)
    /\ kc_step' = "authentication"
    /\ UNCHANGED <<pc, result, keycloak, kc_config, kc_i, kc_changes, kc_calls>>
    /\ KcFrame

AuthIO == {"ok", "flow_raises", "action_raises"}

\* AuthenticationConfigStep.execute on a configuration with the flow
\* FlowAlias and the required action ActionAlias
AuthenticationConfigStep_execute(io) ==
    /\ pc = "kc"
    /\ kc_step = "authentication"
    /\ LET flowFound == FlowAlias \in keycloak.flows
           actFound == ActionAlias \in keycloak.actions
           flowCalls == CreateOrUpdate("authentication", 1, FlowAlias,
                            flowFound, "authentication/flows/<alias>",
                            "authentication/flows",
                            "authentication/flows/<id>")
           actCalls == CreateOrUpdate("authentication", 2, ActionAlias,
                            actFound, "authentication/required-actions/<alias>",
                            "authentication/required-actions",
                            "authentication/required-actions/<alias>")
           \* _configure_required_actions updates without a second lookup
           actCalls1 == <<actCalls[1], actCalls[Len(actCalls)]>>
       IN  IF io = "flow_raises" \/ Rejected(flowFound)
           THEN /\ kc_calls' = kc_calls \o flowCalls
                /\ ConfigureAllRaises("authentication")
                /\ UNCHANGED keycloak
           ELSE IF io = "action_raises" \/ Rejected(actFound)
           THEN /\ kc_calls' = kc_calls \o flowCalls \o actCalls1
                /\ keycloak' = [keycloak EXCEPT !.flows = @ \cup {FlowAlias}]
                /\ ConfigureAllRaises("authentication")
           ELSE /\ kc_calls' = kc_calls \o flowCalls \o actCalls1
                /\ keycloak' = [keycloak EXCEPT
                                   !.flows = @ \cup {FlowAlias},
                                   !.actions = @ \cup {ActionAlias}]
                /\ log' = Append(log, <<"authentication", "execute", "true">>)
                /\ pc' = "done"
                /\ result' = "returned"
                /\ kc_step' = "done"
    /\ UNCHANGED <<kc_config, kc_i, kc_changes>>
    /\ KcFrame

\* RealmConfigStep.rollback, called on the step once configure_all has ended
RealmConfigStep_rollback(ok) ==
    /\ pc = "done"
    /\ kc_step \in {"done", "failed"}
    /\ pc' = "rolled_back"
    /\ IF ok /\ kc_changes # <<>> /\ kc_changes[Len(kc_changes)] = "realm_create"
       THEN /\ keycloak' = [keycloak EXCEPT !.realms = @ \ {RealmName}]
            /\ kc_calls' = Append(kc_calls,
                   KcCall("realm", 1, "delete", "realms/<name>", RealmName,
                          FALSE))
       ELSE UNCHANGED <<keycloak, kc_calls>>
    /\ log' = Append(log, <<"realm", "rollback",
                            IF ok THEN "true" ELSE "false">>)
    /\ UNCHANGED <<result, kc_config, kc_step, kc_i, kc_changes>>
    /\ KcFrame

NextKc ==
    \/ \E io \in RealmIO : RealmConfigStep_execute(io)
    \/ \E io \in ClientIO : ClientConfigStep_execute_client(io)
    \/ ClientConfigStep_execute_return
    \/ \E io \in AuthIO : AuthenticationConfigStep_execute(io)
    \/ \E ok \in BOOLEAN : RealmConfigStep_rollback(ok)

SpecKc == InitKc /\ [][NextKc]_vars

\* =========================================================================
\* FirewallStep (src/src/steps/firewall/firewallstep.py)
\* =========================================================================
\* The host is rules.json (a set of rule names), the rules loaded in iptables
\* and whether UFW is active.  A backup record rules_<timestamp>.json holds the
\* rules of the file it was copied from.

MaxFwRuns == 3

\* the rule names _deploy derives from required_ports (lines 48-53, 63-64)
DefaultRules == {"https_in", "http_in", "management_in", "ajp_in"}

RuleNames == DefaultRules \cup {"ssh_in"}

UfwMigrated == "ufw_migrated"

FwIO == {"ok", "invalid", "load_fails", "save_fails", "copy_fails",
         "apply_fails"}

\* lines 166-174: the records sorted by mtime, all but the newest max_backups
\* of them unlinked
FwEvicted(bk, max) ==
    {k \in DOMAIN bk : Cardinality({j \in DOMAIN bk : j > k}) >= max}

FwRotate(bk, max) ==
    [k \in DOMAIN bk \ FwEvicted(bk, max) |-> bk[k]]

\* _migrate_from_ufw: an active UFW has its rules appended to iptables and is
\* disabled
AfterUfw(fw) ==
    IF fw.ufw
    THEN [fw EXCEPT !.iptables = @ \cup {UfwMigrated}, !.ufw = FALSE]
    ELSE fw

\* _load_rules, then lines 62-69: the default rules that are missing are added
RulesToSave(fw, io) ==
    (IF fw.file.exists /\ io # "load_fails" THEN fw.file.rules ELSE {})
        \cup DefaultRules

\* the position of _backup_rules in _deploy: after _save_rules (line 75)
BackupSource(entry, saved) == saved

InitFirewall ==
    /\ steps = <<>>
    /\ can_cleanup = <<>>
    /\ can_skip = <<>>
    /\ pc = "firewall"
    /\ idx = 0
    /\ phase = "idle"
    /\ log = <<>>
    /\ result = "none"
    /\ CertUnused
    /\ EnvUnused
    /\ PollUnused
    /\ DockerUnused
    /\ KcUnused
    /\ OtherUnused
    /\ firewall \in [file : {[exists |-> FALSE, rules |-> {}]}
                            \cup [exists : {TRUE}, rules : SUBSET RuleNames],
                     iptables : {{}, {"ssh_in"}},
                     ufw : BOOLEAN]
    /\ fw_backups = <<>>
    /\ fw_max \in {SmallCap, MaxBackupsDefault}
    /\ fw_clock = 1
    /\ fw_runs = 0
    /\ fw_obs = NoFwObs

FwFrame ==
    UNCHANGED <<orchVars, certVars, envVars, pollVars, dockerVars, kcVars,
                kdVars, cmdVars>>

\* FirewallStep._deploy.  dt = 0: the call falls into the same second as the
\* previous one, so that its record has the same name.
FirewallStep_deploy(io, dt) ==
    /\ pc = "firewall"
    /\ fw_runs < MaxFwRuns
    /\ fw_obs.ret # "false"
    /\ io = "load_fails" => firewall.file.exists
    /\ fw_runs' = fw_runs + 1
    /\ fw_clock' = fw_clock + dt
    /\ LET now == fw_clock + dt
           entry == firewall
           migrated == AfterUfw(entry)
           rules == RulesToSave(entry, io)
           saved == [exists |-> TRUE, rules |-> rules]
           src == BackupSource(entry.file, saved)
           made == src.exists /\ io \notin {"invalid", "save_fails", "copy_fails"}
           written == (now :> src.rules) @@ fw_backups
           o == [NoFwObs EXCEPT !.entry = entry]
       IN  CASE io = "invalid" ->
                  /\ fw_obs' = [o EXCEPT !.ret = "false"]
                  /\ UNCHANGED <<firewall, fw_backups>>
             [] io = "save_fails" ->
                  /\ firewall' = migrated
                  /\ fw_obs' = [o EXCEPT !.ret = "false"]
                  /\ UNCHANGED fw_backups
             [] io = "copy_fails" ->
                  /\ firewall' = [migrated EXCEPT !.file = saved]
                  /\ fw_obs' = [o EXCEPT !.ret = "false"]
                  /\ UNCHANGED fw_backups
             [] OTHER ->
                  /\ firewall' = [migrated EXCEPT
                                     !.file = saved,
                                     !.iptables = IF io = "apply_fails"
                                                  THEN {} ELSE rules]
                  /\ fw_backups' = IF made THEN FwRotate(written, fw_max)
                                           ELSE fw_backups
                  /\ fw_obs' = [o EXCEPT
                                   !.ret = IF io = "apply_fails"
                                           THEN "false" ELSE "true",
                                   !.made = made,
                                   !.snapshot = src.rules,
                                   !.evicted = IF made
                                               THEN FwEvicted(written, fw_max)
                                               ELSE {}]
    /\ UNCHANGED fw_max
    /\ FwFrame

\* FirewallStep._cleanup, which BaseStep.execute calls after a _deploy that
\* returned False: iptables is flushed and set to accept everything
FirewallStep_cleanup ==
    /\ pc = "firewall"
    /\ fw_obs.ret = "false"
    /\ firewall' = [firewall EXCEPT !.iptables = {}]
    /\ fw_obs' = [fw_obs EXCEPT !.ret = "cleaned"]
    /\ UNCHANGED <<fw_backups, fw_max, fw_clock, fw_runs>>
    /\ FwFrame

NextFirewall ==
    \/ \E io \in FwIO, dt \in {0, 1} : FirewallStep_deploy(io, dt)
    \/ FirewallStep_cleanup

SpecFirewall == InitFirewall /\ [][NextFirewall]_vars

\* =========================================================================
\* KeycloakConfigStep (src/src/keycloak/config/base.py)
\* =========================================================================
\* execute() and rollback() of the base class over an implementation whose
\* _execute_impl and _rollback_impl return True, return False or raise.
\* kc_changes is self.changes; log holds <<number of the execute, call,
\* outcome>>.

MaxCfgRuns == 2

CfgExecutes == {i \in 1..Len(log) : log[i][2] = "execute"}

\* rollback(): lines 96-114.  [ret, changes, calls]: what it returns or that
\* it raises RollbackError, self.changes afterwards, the calls it made
KeycloakConfigStep_rollback_of(changes, rb, n) ==
    IF changes = <<>>
    THEN [ret |-> "true", changes |-> changes, calls |-> <<>>]
    ELSE [ret |-> rb,
          changes |-> IF rb = "true" THEN <<>> ELSE changes,
          calls |-> <<<<n, "_rollback_impl", rb>>>>]

\* line 93: a rollback() that raises inside the except clause of execute()
RollbackRaised(ret) ==
    IF ret = "raise" THEN "RollbackError" ELSE "ConfigurationError"

InitCfgStep ==
    /\ steps = <<>>
    /\ can_cleanup = <<>>
    /\ can_skip = <<>>
    /\ pc = "cfgstep"
    /\ idx = 0
    /\ phase = "idle"
    /\ log = <<>>
    /\ result = "none"
    /\ CertUnused
    /\ AuxUnused

CfgFrame ==
    UNCHANGED <<certVars, envVars, pollVars, dockerVars, fwVars, kdVars, cmdVars,
                steps,
                can_cleanup, can_skip, pc, idx, phase, keycloak, kc_config,
                kc_step, kc_i, kc_calls>>

\* execute(): lines 74-94.  out: the outcome of _execute_impl, which records
\* `recorded` changes first; rb1, rb2: the outcomes of _rollback_impl in the
\* first rollback() and in the one of the except clause.
KeycloakConfigStep_execute(out, recorded, rb1, rb2) ==
    /\ pc = "cfgstep"
    /\ Cardinality(CfgExecutes) < MaxCfgRuns
    /\ LET n == Cardinality(CfgExecutes) + 1
           changes == kc_changes \o [i \in 1..recorded |-> "change"]
           first == KeycloakConfigStep_rollback_of(changes, rb1, n)
           second == KeycloakConfigStep_rollback_of(first.changes, rb2, n)
           implCall == <<<<n, "_execute_impl", out>>>>
           \* the inputs that are not read are fixed
           used1 == out # "true" /\ changes # <<>>
           used2 == used1 /\ out = "false" /\ rb1 = "raise"
       IN  /\ ~used1 => rb1 = "true"
           /\ ~used2 => rb2 = "true"
           /\ CASE out = "true" ->
                     /\ kc_changes' = changes
                     /\ result' = "true"
                     /\ log' = log \o implCall \o <<<<n, "execute", "true">>>>
                [] out = "false" /\ first.ret # "raise" ->
                     /\ kc_changes' = first.changes
                     /\ result' = "false"
                     /\ log' = log \o implCall \o first.calls
                                   \o <<<<n, "execute", "false">>>>
                [] out = "false" /\ first.ret = "raise" ->
                     /\ kc_changes' = second.changes
                     /\ result' = RollbackRaised(second.ret)
                     /\ log' = log \o implCall \o first.calls \o second.calls
                                   \o <<<<n, "execute",
                                         RollbackRaised(second.ret)>>>>
                [] OTHER ->
                     /\ kc_changes' = first.changes
                     /\ result' = RollbackRaised(first.ret)
                     /\ log' = log \o implCall \o first.calls
                                   \o <<<<n, "execute",
                                         RollbackRaised(first.ret)>>>>
    /\ CfgFrame

\* rollback() called on the step by its user, after an execute
KeycloakConfigStep_rollback(rb) ==
    /\ pc = "cfgstep"
    /\ log # <<>>
    /\ log[Len(log)][2] = "execute"
    /\ kc_changes = <<>> => rb = "true"
    /\ LET n == Cardinality(CfgExecutes)
           r == KeycloakConfigStep_rollback_of(kc_changes, rb, n)
       IN  /\ kc_changes' = r.changes
           /\ result' = IF r.ret = "raise" THEN "RollbackError" ELSE r.ret
           /\ log' = log \o r.calls
                         \o <<<<n, "rollback",
                               IF r.ret = "raise" THEN "RollbackError"
                                                  ELSE r.ret>>>>
    /\ CfgFrame

NextCfgStep ==
    \/ \E out \in Outcomes, recorded \in 0..1, rb1 \in Outcomes,
          rb2 \in Outcomes :
           KeycloakConfigStep_execute(out, recorded, rb1, rb2)
    \/ \E rb \in Outcomes : KeycloakConfigStep_rollback(rb)

SpecCfgStep == InitCfgStep /\ [][NextCfgStep]_vars

\* =========================================================================
\* KeycloakDeploymentStep (src/src/keycloak/deploy.py)
\* =========================================================================
\* The Docker host holds at most one container of each name; a container is
\* running and healthy, running and unhealthy, or exited.  One run is what
\* DeploymentOrchestrator.deploy does with the step: check_completed(), and
\* execute() when that returned False.

MaxKdRuns == 2

ContainerStates == {"absent", "healthy", "unhealthy", "exited"}

KdIO == {"ok", "pull_fails", "postgres_unhealthy", "keycloak_run_raises",
         "keycloak_unhealthy", "not_responding"}

\* check_completed (lines 60-80): both containers running and healthy
KeycloakDeploymentStep_check_completed_of(cs) ==
    cs["postgres"] = "healthy" /\ cs["keycloak"] = "healthy"

\* cleanup (lines 210-227): the containers named keycloak and postgres are
\* looked up by name, stopped and removed
CleanupTargets(created) == ContainerNames

\* stop_raises: the stop of the first container found raises, cleanup returns
\* False and nothing has been removed
KeycloakDeploymentStep_cleanup_of(cs, created, cio) ==
    IF cio = "stop_raises" THEN cs
    ELSE [n \in ContainerNames |->
            IF n \in CleanupTargets(created) THEN "absent" ELSE cs[n]]

InitKd ==
    /\ steps = <<>>
    /\ can_cleanup = <<>>
    /\ can_skip = <<>>
    /\ pc = "kd"
    /\ idx = 0
    /\ phase = "idle"
    /\ log = <<>>
    /\ result = "none"
    /\ CertUnused
    /\ EnvUnused
    /\ PollUnused
    /\ DockerUnused
    /\ KcUnused
    /\ FwUnused
    /\ CmdUnused
    /\ containers \in [ContainerNames -> ContainerStates]
    /\ kd_runs = 0
    /\ kd_obs = NoKdObs

KdFrame ==
    UNCHANGED <<orchVars, certVars, envVars, pollVars, dockerVars, kcVars,
                fwVars, cmdVars>>

\* deploy() lines 139-141: check_completed() of the step; True skips it
KeycloakDeploymentStep_check_completed ==
    /\ pc = "kd"
    /\ kd_runs < MaxKdRuns
    /\ kd_obs.ret \in {"none", "skipped", "true", "false"}
    /\ kd_runs' = kd_runs + 1
    /\ kd_obs' = [NoKdObs EXCEPT
                     !.entry = containers,
                     !.ret = IF KeycloakDeploymentStep_check_completed_of(containers)
                             THEN "skipped" ELSE "execute"]
    /\ UNCHANGED containers
    /\ KdFrame

\* execute (lines 82-175).  io names the first thing that goes wrong, cio what
\* the cleanup of line 174 meets.  containers.run raises when a container of
\* that name exists.
KeycloakDeploymentStep_execute(io, cio) ==
    /\ pc = "kd"
    /\ kd_obs.ret = "execute"
    /\ LET s0 == containers
           pgConflict == s0["postgres"] # "absent"
           s1 == [s0 EXCEPT !["postgres"] =
                     IF io = "postgres_unhealthy" THEN "unhealthy"
                                                  ELSE "healthy"]
           kcConflict == s0["keycloak"] # "absent"
           s2 == [s1 EXCEPT !["keycloak"] =
                     IF io = "keycloak_unhealthy" THEN "unhealthy"
                                                  ELSE "healthy"]
           failed(cs, created) ==
               /\ containers' = KeycloakDeploymentStep_cleanup_of(cs, created, cio)
               /\ kd_obs' = [kd_obs EXCEPT !.ret = "false", !.created = created]
           \* the inputs that are not read are fixed
           early == io = "pull_fails" \/ pgConflict
       IN  /\ pgConflict => io \in {"ok", "pull_fails"}
           /\ (~early /\ io # "postgres_unhealthy" /\ kcConflict)
                  => io = "ok"
           /\ (io = "ok" /\ ~pgConflict /\ ~kcConflict) => cio = "ok"
           /\ (early /\ \A n \in ContainerNames : s0[n] = "absent")
                  => cio = "ok"
           /\ CASE early -> failed(s0, {})
                [] io = "postgres_unhealthy" -> failed(s1, {"postgres"})
                [] io = "keycloak_run_raises" \/ kcConflict ->
                       failed(s1, {"postgres"})
                [] io \in {"keycloak_unhealthy", "not_responding"} ->
                       failed(s2, ContainerNames)
                [] OTHER ->
                       /\ containers' = s2
                       /\ kd_obs' = [kd_obs EXCEPT !.ret = "true",
                                                   !.created = ContainerNames]
    /\ UNCHANGED kd_runs
    /\ KdFrame

NextKd ==
    \/ KeycloakDeploymentStep_check_completed
    \/ \E io \in KdIO, cio \in {"ok", "stop_raises"} :
           KeycloakDeploymentStep_execute(io, cio)

SpecKd == InitKd /\ [][NextKd]_vars

\* =========================================================================
\* The deploy command (src/kcmanage/commands/deploy.py)
\* =========================================================================
\* The command imports the five step classes, adds the imported ones (or the
\* one --step names) to a StepOrchestrator and returns 0 or 1 after
\* orchestrator.execute().  The steps are numbered in the order of step_imports
\* (lines 93-99): 1 system, 2 docker, 3 firewall, 4 certificates, 5 keycloak.

StepOrder == <<1, 2, 3, 4, 5>>

\* what the body of the import loop (lines 104-107) does for a step: it
\* succeeds, raises ImportError, or raises another exception (getattr on a
\* module without the class, the constructor of the step)
LoadOutcomes == {"ok", "import_error", "error"}

\* can_cleanup of the step classes (system/prepare.py:14, docker/setup.py:15,
\* firewall/firewallstep.py:19, certificates/certificatestep.py:21,
\* keycloak/deploy.py:14)
CanCleanupOf(s) == s # 1

\* the keys of the dict `steps` after the import loop: an ImportError is
\* caught at line 109 and the loop goes on
ImportedSteps_all_or_none(load) ==
    IF \A s \in DOMAIN load : load[s] = "ok" THEN DOMAIN load ELSE {}

ImportedSteps(load) == {s \in DOMAIN load : load[s] = "ok"}

\* lines 126-132: the imported steps in the fixed order
StepsInOrder(imported) == SelectSeq(StepOrder, LAMBDA s : s \in imported)

InitCmd ==
    /\ steps = <<>>
    /\ can_cleanup = <<>>
    /\ can_skip = <<>>
    /\ pc = "cmd"
    /\ idx = 0
    /\ phase = "none"
    /\ log = <<>>
    /\ result = "none"
    /\ CertUnused
    /\ EnvUnused
    /\ PollUnused
    /\ DockerUnused
    /\ KcUnused
    /\ FwUnused
    /\ KdUnused
    /\ cmd_load \in [1..Len(StepOrder) -> LoadOutcomes]
    /\ cmd_orch_ok \in BOOLEAN
    /\ cmd_step \in 0..Len(StepOrder)
    /\ cmd_ret = "none"

CmdFrame == UNCHANGED <<certVars, envVars, pollVars, dockerVars, kcVars, fwVars,
                        kdVars, cmd_load, cmd_orch_ok, cmd_step>>

\* lines 24-132: everything before orchestrator.execute().  A failure to
\* import or construct the orchestrator returns 1 (lines 58-89); an exception
\* of the import loop other than ImportError reaches the handler of line 152,
\* which returns 1; --step naming a step that is not in `steps` returns 1.
deploy_prepare ==
    /\ pc = "cmd"
    /\ LET imported == ImportedSteps(cmd_load)
           aborted == \/ ~cmd_orch_ok
                      \/ \E s \in DOMAIN cmd_load : cmd_load[s] = "error"
                      \/ (cmd_step # 0 /\ cmd_step \notin imported)
           added == IF cmd_step # 0 THEN <<cmd_step>>
                    ELSE StepsInOrder(imported)
       IN  IF aborted
           THEN /\ pc' = "cmd_done"
                /\ cmd_ret' = "1"
                /\ UNCHANGED <<steps, can_cleanup, can_skip>>
           ELSE /\ pc' = "build"
                /\ steps' = added
                /\ can_cleanup' = [i \in 1..Len(added) |-> CanCleanupOf(added[i])]
                /\ can_skip' = [i \in 1..Len(added) |-> FALSE]
                /\ UNCHANGED cmd_ret
    /\ UNCHANGED <<idx, phase, log, result>>
    /\ CmdFrame

\* lines 135-144: the value of orchestrator.execute() decides the return code
deploy_return ==
    /\ pc = "done"
    /\ cmd_ret = "none"
    /\ cmd_orch_ok
    /\ pc' = "cmd_done"
    /\ cmd_ret' = IF result = "true" THEN "0" ELSE "1"
    /\ UNCHANGED <<steps, can_cleanup, can_skip, idx, phase, log, result>>
    /\ CmdFrame

NextCmd ==
    \/ deploy_prepare
    \/ StepOrchestrator_execute
    \/ \E c \in BOOLEAN : StepOrchestrator_call_step(c)
    \/ \E out \in Outcomes : BaseStep_check_dependencies(out)
    \/ \E out \in Outcomes : BaseStep_install_dependencies(out)
    \/ \E ok \in BOOLEAN : BaseStep_get_environment_variables(ok)
    \/ \E out \in Outcomes : BaseStep_deploy(out)
    \/ \E r \in BOOLEAN : BaseStep_cleanup_48(r)
    \/ \E r \in BOOLEAN : BaseStep_cleanup_57(r)
    \/ StepOrchestrator_step_returned
    \/ StepOrchestrator_step_raised
    \/ \E out \in Outcomes : StepOrchestrator_summary(out)
    \/ deploy_return

SpecCmd == InitCmd /\ [][NextCmd]_vars

\* =========================================================================
\* Claims
\* =========================================================================

\* C1: in StepOrchestrator.execute, once a step's execute() has returned false
\* or raised, nothing more is called: that return is the last entry of the
\* history, and execute() has ended returning false.
C1_HaltAtFirstFailure ==
    \A i \in 1..Len(log) :
        (log[i][2] = "return" /\ log[i][3] # "true")
            => (i = Len(log) /\ pc = "done" /\ result = "false")

\* steps [A succeeds, B fails, C]: A and B ran, C was never attempted.
C1_Witness ==
    /\ Len(steps) = 3
    /\ \E i \in 1..Len(log) : log[i] = <<1, "return", "true">>
    /\ \E i \in 1..Len(log) : log[i] = <<2, "return", "false">>
    /\ ~Called(3, "execute")
    /\ result = "false"

\* C2: in DeploymentOrchestrator.deploy, a step whose check_completed()
\* returned true (it is only called when can_skip is set) never has execute()
\* invoked, and what follows the check is the next step (or the summary).
C2_CompletedStepNotExecuted ==
    \A i \in 1..Len(log) :
        (log[i][2] = "check_completed" /\ log[i][3] = "true")
            => /\ can_skip[log[i][1]]
               /\ ~Called(log[i][1], "execute")
               /\ i < Len(log) => log[i + 1][1] \in {log[i][1] + 1, 0}
               /\ i = Len(log) => (idx = log[i][1] + 1 /\ result = "none")

C2_Witness ==
    /\ \E i \in 1..Len(log) : log[i] = <<1, "check_completed", "true">>
    /\ \E i \in 1..Len(log) : log[i] = <<2, "execute", "true">>
    /\ ~Called(1, "execute")

\* C3: StepOrchestrator.execute skips a step that is skippable and whose
\* completion check holds: none of its lifecycle calls is made.
C3_CompletedStepSkipped ==
    \A s \in Range(steps) :
        Called(s, "completed")
            => /\ ~Called(s, "check_dependencies")
               /\ ~Called(s, "install_dependencies")
               /\ ~Called(s, "get_environment_variables")
               /\ ~Called(s, "deploy")

\* C4: steps run one at a time in the order of the add_step calls (the k-th
\* call added step k): execute() of step s is called at most once, only after
\* step s-1 has returned true, and never while another step is executing.
Returned(s, i) == \E j \in 1..(i - 1) : log[j][1] = s /\ log[j][2] = "return"

C4_SequentialInOrder ==
    \A i \in 1..Len(log) :
        log[i][2] = "execute"
            => /\ CountCalls(log[i][1], "execute") = 1
               /\ log[i][1] > 1 =>
                    \E j \in 1..(i - 1) : log[j] = <<log[i][1] - 1, "return", "true">>
               /\ \A k \in 1..(i - 1) :
                    log[k][2] = "execute" => Returned(log[k][1], i)

C4_Witness ==
    /\ Len(steps) = 3
    /\ result = "true"
    /\ \A s \in 1..3 : \E i \in 1..Len(log) : log[i] = <<s, "return", "true">>

\* C5: when certbot's issuance fails in a run of the certificate step while
\* the backup directory holds a valid backup, the step returns true and the
\* orchestrator calls the next step.  (Stated for behaviours in which no file
\* operation has raised.)
C5_RestoreOnFailedIssuance ==
    (pc = "idle" /\ obs.issuance = "failed" /\ obs.validBackup /\ ~obs.fault)
        => (result = "true" /\ Called(2, "execute"))

\* C6: once the certificate step has started a mutating action, a backup
\* record was created in this run, and when certificate and key existed at
\* entry, the run holds the path of a record with exactly those two files.
\* (Stated for behaviours in which no file operation has raised.)
C6_BackupBeforeMutation ==
    (pc = "step" /\ obs.mutated /\ ~obs.fault) =>
        /\ obs.created # 0
        /\ (obs.entryCert.exists /\ obs.entryKey # 0) =>
              /\ backup_path \in DOMAIN backups
              /\ backups[backup_path] = [cert |-> obs.entryCert, key |-> obs.entryKey]

\* C7: the backup directory of the certificate step and of the Wazuh step
\* never holds more than max_backups records, and every record a backup call
\* evicted is older than every record it kept.
C7_BackupCap ==
    impl \in {"manager", "step", "wazuh"} =>
        /\ Cardinality(DOMAIN backups) <= max_backups
        /\ \A e \in obs.evicted : \A k \in DOMAIN backups : e < k

C7_Witness ==
    /\ impl \in {"manager", "wazuh"}
    /\ max_backups = MaxBackupsDefault
    /\ Cardinality(DOMAIN backups) = max_backups
    /\ obs.evicted # {}

\* C8: after N >= 5 successive backup creations by CertificateManager with
\* max_backups = 5, each of which returned its record, exactly 5 records
\* remain, and the evicted ones are older than all that remain.
C8_ExactlyFiveMostRecent ==
    (pc = "backup" /\ impl = "manager" /\ max_backups = MaxBackupsDefault
        /\ runs >= MaxBackupsDefault /\ obs.allOk)
    => /\ Cardinality(DOMAIN backups) = MaxBackupsDefault
       /\ \A e \in obs.evicted : \A k \in DOMAIN backups : e < k

\* C9: a restore call that returned true or changed a live file used a record
\* whose certificate passed _validate_certificate at the time of the call; with
\* a record that failed it the call returned false and left both live files
\* as they were.
C9_RestoreOnlyValidated ==
    obs.restore.called =>
        LET r == obs.restore
            valid == IF impl = "step"
                        THEN CertificateStep_validate_certificate(r.src, r.srcKey) = "ok"
                        ELSE validate_certificate(r.src, r.preKey) = "ok"
        IN  /\ (r.ret \/ r.postCert # r.preCert \/ r.postKey # r.preKey) => valid
            /\ ~valid => (~r.ret /\ r.postCert = r.preCert /\ r.postKey = r.preKey)

C9_Witness ==
    /\ obs.restore.called
    /\ obs.restore.ret
    /\ obs.restore.postCert # obs.restore.preCert
    /\ obs.restore.postCert = obs.restore.src

\* C10: whenever _restore_backup returned false, the live certificate and key
\* are exactly as they were before the call.
C10_NoPartialRestore ==
    (obs.restore.called /\ ~obs.restore.ret) =>
        /\ obs.restore.postCert = obs.restore.preCert
        /\ obs.restore.postKey = obs.restore.preKey

\* C11: a restore of the latest backup that found the backup directory without
\* a record returned false, started no write to a target path and left the
\* live certificate and key as they were.
C11_EmptyRestoreWritesNothing ==
    (obs.restore.called /\ obs.restore.empty) =>
        /\ ~obs.restore.ret
        /\ obs.restore.writes = 0
        /\ obs.restore.postCert = obs.restore.preCert
        /\ obs.restore.postKey = obs.restore.preKey
        /\ liveCert = obs.restore.preCert /\ liveKey = obs.restore.preKey

C11_Witness ==
    /\ pc = "restore"
    /\ impl \in {"wazuh", "prometheus"}
    /\ obs.restore.called
    /\ obs.restore.empty

\* C12: the certificate step's completion check answered true only in a run
\* that found both live files present, the certificate passing validation and
\* its chain verifying.
C12_CompletedOnlyIfValid ==
    (\E i \in 1..Len(log) : log[i] = <<1, "check_completed", "true">>) =>
        /\ obs.entryCert.exists /\ obs.entryKey # 0
        /\ validate_certificate(obs.entryCert, obs.entryKey) = "ok"
        /\ obs.entryCert.parse /\ obs.entryCert.chain
        /\ impl # "step" \/ StepHasConfig

C12_Witness ==
    /\ pc = "idle"
    /\ log = <<<<1, "check_completed", "true">>, <<1, "return", "true">>,
               <<2, "execute", "call">>>>
    /\ liveCert = obs.entryCert

\* C13: certificate validation (of CertificateManager and of CertificateStep)
\* returns the reason of the first failing check in the order parse, expiry,
\* domain match, key pairing; a certificate that parses, is not about to
\* expire and names none of the configured domains is rejected with the
\* "domains don't match" reason.
C13_FirstFailingCheckIsReason ==
    pc = "validated" =>
        result = CASE ~(liveCert.exists /\ liveCert.parse) ->
                        "Certificate validation failed"
                   [] liveCert.rem \div 2 <= MinDaysValid ->
                        "Certificate expires in less than min_days_valid days"
                   [] liveCert.san \cap Domains = {} ->
                        "Certificate domains don't match configuration"
                   [] liveKey # liveCert.pub ->
                        "Private key validation failed"
                   [] OTHER -> "ok"

\* the calls BaseStep.execute makes on its step
StepCalls == {"check_dependencies", "install_dependencies",
              "get_environment_variables", "deploy", "cleanup"}

\* the index of the last deploy call of step s before position i (0: none)
LastDeploy(s, i) ==
    LET D == {j \in 1..(i - 1) : log[j][1] = s /\ log[j][2] = "deploy"}
    IN  IF D = {} THEN 0 ELSE CHOOSE j \in D : \A k \in D : k <= j

\* C14: _cleanup is called only on a step with can_cleanup whose _deploy
\* returned false or raised; after a _deploy that returned true, or on a step
\* without can_cleanup, execute() returns with no _cleanup call.
C14_CleanupOnlyAfterFailedDeploy ==
    \A i \in 1..Len(log) :
        /\ log[i][2] = "cleanup" =>
                /\ can_cleanup[log[i][1]]
                /\ LastDeploy(log[i][1], i) # 0
                /\ log[LastDeploy(log[i][1], i)][3] \in {"false", "raise"}
        /\ (log[i][2] = "deploy" /\ i < Len(log)) =>
                CASE log[i][3] = "true" -> log[i + 1] = <<log[i][1], "return", "true">>
                  [] ~can_cleanup[log[i][1]] ->
                        log[i + 1] = <<log[i][1], "return", "false">>
                  [] OTHER -> log[i + 1][1] = log[i][1] /\ log[i + 1][2] = "cleanup"

C14_Witness ==
    /\ pc = "done"
    /\ result = "false"
    /\ \E i \in 1..(Len(log) - 2) :
            /\ log[i][2] = "deploy" /\ log[i][3] = "false"
            /\ can_cleanup[log[i][1]]
            /\ log[i + 1] = <<log[i][1], "cleanup", "true">>
            /\ log[i + 2] = <<log[i][1], "return", "false">>
    /\ \E i \in 1..(Len(log) - 1) :
            /\ log[i][2] = "deploy" /\ log[i][3] = "true"
            /\ log[i + 1] = <<log[i][1], "return", "true">>

\* C15: after a call of BaseStep.execute on its step raised (dependency check,
\* dependency installation, environment resolution, _deploy or _cleanup),
\* execute() is on its way to returning false or has returned false; it never
\* hands the exception to the orchestrator.
C15_NoExceptionEscapes ==
    \A i \in 1..Len(log) :
        (log[i][2] \in StepCalls /\ log[i][3] = "raise") =>
            LET s == log[i][1]
                R == {j \in (i + 1)..Len(log) : log[j][1] = s /\ log[j][2] = "return"}
            IN  /\ \A j \in R : log[j][3] = "false"
                /\ R = {} => (pc = "step" /\ steps[idx] = s
                                /\ phase \in {"cleanup_57", "return_false"})
                /\ R # {} => (pc = "done" /\ result = "false")

C15_Witness ==
    /\ pc = "done"
    /\ result = "false"
    /\ \E i \in 1..(Len(log) - 2) :
            /\ log[i] = <<log[i][1], "cleanup", "raise">>
            /\ log[i + 1] = <<log[i][1], "cleanup", "raise">>
            /\ log[i + 2] = <<log[i][1], "return", "false">>

\* C16: within one execute the calls come in the order dependency check,
\* dependency installation (only after a check that returned false),
\* environment resolution, _deploy; _deploy follows an environment resolution
\* that returned, which follows a check that returned true or an installation
\* that returned true.
C16_PhaseOrder ==
    \A i \in 1..Len(log) :
        LET s == log[i][1]
        IN  /\ log[i][2] = "check_dependencies" =>
                    (i > 1 /\ log[i - 1] = <<s, "execute", "call">>)
            /\ log[i][2] = "install_dependencies" =>
                    (i > 1 /\ log[i - 1] = <<s, "check_dependencies", "false">>)
            /\ log[i][2] = "get_environment_variables" =>
                    (i > 1 /\ log[i - 1] \in {<<s, "check_dependencies", "true">>,
                                              <<s, "install_dependencies", "true">>})
            /\ log[i][2] = "deploy" =>
                    (i > 1 /\ log[i - 1] = <<s, "get_environment_variables", "true">>)

C16_Witness ==
    \E i \in 4..Len(log) :
        /\ log[i][2] = "deploy"
        /\ log[i - 1][2] = "get_environment_variables"
        /\ log[i - 2][2] = "install_dependencies"
        /\ log[i - 3][2] = "check_dependencies"

\* C17: a dependency installation that returned false is the last call of its
\* step: execute() returns false next, and the orchestrator's run ends there
\* with false.
C17_InstallFailureIsFatal ==
    \A i \in 1..Len(log) :
        (log[i][2] = "install_dependencies" /\ log[i][3] = "false") =>
            \/ /\ i = Len(log)
               /\ pc = "step" /\ phase = "return_false"
            \/ /\ Len(log) = i + 1
               /\ log[i + 1] = <<log[i][1], "return", "false">>
               /\ pc = "done" /\ result = "false"

C17_Witness ==
    /\ pc = "done"
    /\ result = "false"
    /\ Len(log) >= 2
    /\ log[Len(log) - 1][2] = "install_dependencies"
    /\ log[Len(log) - 1][3] = "false"
    /\ log[Len(log) - 1][1] < Len(steps)

\* C18: when a step's environment resolution raises, that step has performed
\* no dependency installation before it, and _deploy is not called after it.
C18_EnvironmentFailureBeforeMutation ==
    \A i \in 1..Len(log) :
        (log[i][2] = "get_environment_variables" /\ log[i][3] = "raise") =>
            /\ \A j \in 1..(i - 1) :
                    ~(log[j][1] = log[i][1] /\ log[j][2] = "install_dependencies")
            /\ \A j \in (i + 1)..Len(log) :
                    ~(log[j][1] = log[i][1] /\ log[j][2] = "deploy")

\* a required variable that, when execute() was entered, neither os.environ
\* nor the .env file held
AbsentAtEntry(k) ==
    /\ k \in required_vars
    /\ env_obs.environ[k] = Unset
    /\ ~env_obs.file.exists \/ env_obs.file.vars[k] = Unset

\* C19: when execute() of steps/base.py is entered with a required variable
\* that is neither in os.environ nor in the .env file, it returns false, the
\* variable is reported missing and the .env file is what it was at entry.
C19_MissingRequiredFailsAndWritesNothing ==
    (env_obs.call = "execute" /\ \E k \in Keys : AbsentAtEntry(k)) =>
        /\ env_obs.ret = "false"
        /\ result = "false"
        /\ \A k \in Keys : AbsentAtEntry(k) => k \in env_obs.missing
        /\ env_file = env_obs.file

C19_Witness ==
    /\ env_obs.call = "execute"
    /\ env_obs.file.exists
    /\ \E k \in Keys : AbsentAtEntry(k)
    /\ \E k \in required_vars : env_obs.environ[k] # Unset
    /\ result = "false"

\* C20: a required variable that os.environ held when execute() was entered
\* is not reported missing, whether or not the .env file exists.
C20_ProcessEnvironmentNeverMissing ==
    env_obs.call = "execute" =>
        \A k \in required_vars :
            env_obs.environ[k] # Unset => k \notin env_obs.missing

\* C21: StepOrchestrator.execute generates the summary only after every step
\* of the list has returned true, as the last call of the run, and execute()
\* is then true whatever the generation did (true, false or an exception).
C21_SummaryAfterAllStepsNeverFails ==
    \A i \in 1..Len(log) :
        log[i][2] = "summary" =>
            /\ i = Len(log)
            /\ \A k \in 1..Len(steps) :
                    \E j \in 1..(i - 1) : log[j] = <<steps[k], "return", "true">>
            /\ \A j \in 1..(i - 1) :
                    log[j][2] = "return" => log[j][3] = "true"
            /\ pc = "done"
            /\ result = "true"

C21_Witness ==
    /\ pc = "done"
    /\ result = "true"
    /\ Len(steps) = NumSteps
    /\ log[Len(log)] = <<0, "summary", "raise">>

\* C22: once DeploymentOrchestrator.deploy has skipped or successfully
\* executed every step and has run the summary generation, deploy() has
\* returned true, whether or not the generation failed.
C22_DeploySummaryNeverFails ==
    (\E i \in 1..Len(log) : log[i][2] = "summary") =>
        (pc = "done" /\ result = "true")

C24_RedeployConverges ==
    (docker_obs.call = "deploy" /\ ~docker_obs.fault) =>
        /\ docker_obs.attempted \cap docker_obs.existing = {}
        /\ docker_obs.prev = "true" =>
                /\ docker_obs.attempted = {}
                /\ networks \cup volumes = docker_obs.existing
                /\ result = "true"

C24_Witness ==
    /\ docker_obs.call = "deploy"
    /\ ~docker_obs.fault
    /\ docker_obs.prev = "true"
    /\ docker_runs = 2
    /\ result = "true"
    /\ networks = {NetworkName}
    /\ volumes = VolumeNames

ExpiryReason == "Certificate expires in less than min_days_valid days"

\* C25: validation of a certificate that parses gives the expiry reason
\* exactly when the time left until notAfter is at most min_days_valid days
\* (liveCert.rem counts half days).
C25_ExpiryBoundary ==
    (pc = "validated" /\ liveCert.exists /\ liveCert.parse) =>
        ((result = ExpiryReason) <=> (liveCert.rem <= 2 * MinDaysValid))

\* C26: two validations of the same unmodified certificate and key with the
\* same constraints give the same result.
C26_ValidationDeterministic ==
    pc = "validated_twice" => log[1][3] = log[2][3]

\* C27: after a call that wrote the configuration values to the .env file,
\* the file's permissions are owner-only.
C27_EnvFileOwnerOnly ==
    (/\ env_obs.call \in {"save_environment", "setup_save_environment"}
     /\ env_obs.ret = "true") =>
        env_file.mode = "0600"

\* the positions in kc_calls of the calls that pass i of a step's loop made
KcCallsOf(step, i) ==
    {k \in 1..Len(kc_calls) : kc_calls[k].step = step /\ kc_calls[k].i = i}

VerbCalls(ks, verb) == {k \in ks : kc_calls[k].verb = verb}

\* C28: ClientConfigStep.execute, for each configured client, issues exactly
\* one create call to 'clients' (and no update) when its lookup finds no client
\* with that clientId, and exactly one update call to 'clients/<existing id>'
\* and no create call when the lookup finds one.
C28_ClientCreateOrUpdateOnce ==
    \A i \in 1..Len(kc_config) :
        LET ks == KcCallsOf("clients", i)
            creates == VerbCalls(ks, "create")
            updates == VerbCalls(ks, "update")
            existed == \E k \in VerbCalls(ks, "get") : kc_calls[k].found
        IN  ks # {} =>
              IF existed
              THEN /\ creates = {}
                   /\ Cardinality(updates) = 1
                   /\ \A k \in updates : /\ kc_calls[k].path = "clients/<id>"
                                         /\ kc_calls[k].key = kc_config[i]
              ELSE /\ updates = {}
                   /\ Cardinality(creates) = 1
                   /\ \A k \in creates : /\ kc_calls[k].path = "clients"
                                         /\ kc_calls[k].key = kc_config[i]

\* a run whose clients step created one client and updated another
C28_Witness ==
    /\ kc_step = "authentication"
    /\ Len(kc_config) = 2
    /\ \E k \in KcCallsOf("clients", 1) : kc_calls[k].verb = "create"
    /\ \E k \in KcCallsOf("clients", 2) : kc_calls[k].verb = "update"

\* the positions in kc_calls of the calls a step made
KcStepCalls(step) == {k \in 1..Len(kc_calls) : kc_calls[k].step = step}

\* C29: AuthenticationConfigStep.execute on a configuration with one flow and
\* one required action issues exactly one create call in total, to
\* 'authentication/flows', when its lookups find nothing existing, and exactly
\* one update call in total, to 'authentication/flows/<existing id>', when its
\* lookups find an existing flow.
C29_AuthOneCreateOrOneUpdate ==
    LET ks == KcStepCalls("authentication")
        gets == VerbCalls(ks, "get")
        creates == VerbCalls(ks, "create")
        updates == VerbCalls(ks, "update")
    IN  (kc_step = "done" /\ ks # {}) =>
          /\ (\A k \in gets : ~kc_calls[k].found) =>
                /\ Cardinality(creates) = 1
                /\ \A k \in creates :
                       kc_calls[k].path = "authentication/flows"
          /\ (\E k \in gets : kc_calls[k].key = FlowAlias /\ kc_calls[k].found)
                =>
                /\ Cardinality(updates) = 1
                /\ \A k \in updates :
                       kc_calls[k].path = "authentication/flows/<id>"

\* the realm step of this run created the realm
RealmCreatedInRun ==
    /\ kc_changes = <<"realm_create">>
    /\ \E k \in KcStepCalls("realm") : kc_calls[k].verb = "create"

\* the clients step ended in a creation that raised
ClientCreationRaised ==
    /\ kc_calls # <<>>
    /\ kc_calls[Len(kc_calls)].step = "clients"
    /\ kc_calls[Len(kc_calls)].verb = "create"
    /\ log # <<>>
    /\ log[Len(log)] = <<"clients", "configure", "raised">>

\* C30: when applying the configuration fails partway (the realm has been
\* created and then client creation raises), the application returns false
\* and the realm created in this run has been deleted.
C30_PartialFailureRollsBack ==
    (pc = "done" /\ RealmCreatedInRun /\ ClientCreationRaised)
        => (result = "false" /\ RealmName \notin keycloak.realms)

\* C31: in DeploymentOrchestrator.deploy, a step with can_cleanup that fails,
\* whether its execute() returned false or raised, has had its cleanup()
\* called by the time deploy() has ended.
C31_DeployCleanupBeforeFailure ==
    pc = "done" =>
        \A i \in 1..Len(log) :
            (/\ log[i][2] = "execute"
             /\ log[i][3] # "true"
             /\ can_cleanup[log[i][1]])
                => \E j \in (i + 1)..Len(log) :
                       log[j][1] = log[i][1] /\ log[j][2] = "cleanup"

\* C33: after any number of backup creations, the number of records that
\* PrometheusManager keeps in its backup directory never exceeds the
\* configured cap.
C33_PrometheusBackupCap ==
    impl = "prometheus" => Cardinality(DOMAIN backups) <= max_backups

\* C32: in FirewallStep._deploy the rules backup is taken before any mutating
\* action of the step, so the record a _deploy made holds the rules that
\* rules.json held when _deploy was entered.
C32_FirewallBackupBeforeMutation ==
    fw_obs.made =>
        /\ fw_obs.entry.file.exists
        /\ fw_obs.snapshot = fw_obs.entry.file.rules

\* C34: a rollback failure inside a Keycloak configuration step is never
\* re-raised: an execute() whose _execute_impl failed and whose rollback then
\* failed too ends by reporting the configuration failure (it returns false or
\* raises ConfigurationError), never with a RollbackError.
C34_RollbackFailureNotRaised ==
    \A i \in CfgExecutes :
        (\E j \in 1..(i - 1) :
            /\ log[j][1] = log[i][1]
            /\ log[j][2] = "_rollback_impl"
            /\ log[j][3] # "true")
            => log[i][3] \in {"false", "ConfigurationError"}

\* C35: whenever the certificate step's execute has returned true, the
\* certificate at the live path passes both certificate validation and chain
\* verification, also when the success was reached by restoring a backup
\* after a failed issuance.
C35_SuccessMeansValidAndChained ==
    (pc = "idle" /\ \E i \in 1..Len(log) : log[i] = <<1, "return", "true">>)
        => /\ Validate(liveCert, liveKey) = "ok"
           /\ verify_cert_chain(liveCert)

\* C36: every record that _manage_backups of the certificate manager or step
\* adds to the backup directory holds both fullchain.pem and privkey.pem, and
\* no record is evicted by a call that leaves a record without content.
\* (Stated for behaviours in which no file operation has raised.)
C36_NoEmptyRecord ==
    (impl \in {"manager", "step"} /\ ~obs.fault) =>
        /\ \A t \in DOMAIN backups :
               backups[t].cert.exists /\ backups[t].key # 0
        /\ obs.evicted # {} =>
               /\ obs.created \in DOMAIN backups
               /\ backups[obs.created] # EmptyRecord

\* C37: whether CertificateManager._restore_backup accepts a record depends
\* only on the record's own certificate and private key: with no file
\* operation raising, a restore of a record returns true exactly when the
\* record's certificate passes validation against the record's own key.
C37_EligibilityFromRecordOnly ==
    (/\ impl = "manager"
     /\ obs.restore.called
     /\ ~obs.restore.empty
     /\ ~obs.fault)
        => (obs.restore.ret
              <=> validate_certificate(obs.restore.src, obs.restore.srcKey) = "ok")

\* C38: during one BaseStep.execute call the step's _cleanup is invoked at
\* most once, whatever _deploy and _cleanup do: the history holds at most one
\* cleanup call of each step.
C38_CleanupAtMostOnce ==
    \A s \in 1..Len(steps) :
        Cardinality({i \in 1..Len(log) :
                        log[i][1] = steps[s] /\ log[i][2] = "cleanup"}) <= 1

\* C39: a failed KeycloakDeploymentStep.execute removes only containers that
\* this invocation created: a container named keycloak or postgres that
\* existed before the call is in the state it was in once execute() has
\* returned false.
C39_FailedDeployKeepsForeignContainers ==
    kd_obs.ret = "false" =>
        \A n \in ContainerNames :
            kd_obs.entry[n] # "absent" => containers[n] = kd_obs.entry[n]

\* the steps whose execute() the orchestrator has called, in call order
ExecutedSteps == SelectSeq(log, LAMBDA e : e[2] = "execute")

\* C40: in the deploy command, when the import of a step's module raises
\* ImportError (and nothing else goes wrong before the execution), the run is
\* not aborted: without --step the orchestrator holds exactly the imported
\* steps in the order system, docker, firewall, certificates, keycloak and
\* executes them in that order; with --step naming a step that was not
\* imported the command returns 1 and no step has been executed.
C40_ImportFailureOmitsStep ==
    LET expected == StepsInOrder({s \in DOMAIN cmd_load : cmd_load[s] = "ok"})
        ex == ExecutedSteps
    IN  (/\ pc # "cmd"
         /\ cmd_orch_ok
         /\ \A s \in DOMAIN cmd_load : cmd_load[s] \in {"ok", "import_error"})
            =>
            /\ cmd_step = 0 =>
                  /\ steps = expected
                  /\ Len(ex) <= Len(expected)
                  /\ \A i \in 1..Len(ex) : ex[i][1] = expected[i]
                  /\ pc = "cmd_done" => result # "none"
                  /\ cmd_ret = "0" => Len(ex) = Len(expected)
            /\ (cmd_step # 0 /\ cmd_load[cmd_step] # "ok") =>
                  /\ pc = "cmd_done"
                  /\ cmd_ret = "1"
                  /\ log = <<>>

\* a run without --step in which two imports failed and the three imported
\* steps were executed successfully
C40_Witness ==
    /\ pc = "cmd_done"
    /\ cmd_step = 0
    /\ cmd_ret = "0"
    /\ cmd_load = <<"ok", "import_error", "ok", "import_error", "ok">>
    /\ Len(ExecutedSteps) = 3

====
